---- MODULE Spec2Model ----
(***************************************************************************)
(* Model of the DomainTools client: the configuration manager              *)
(* (config/manager.py), the API gateway facade (api/client.py) and the     *)
(* command surface (cli/main.py, cli/commands/*.py).                       *)
(*                                                                         *)
(* Strings are tuples of one-character strings, so that parsing, case      *)
(* folding and substring search are computed rather than assumed.          *)
(* Python's None / an optional value is a sequence of length 0 or 1.       *)
(***************************************************************************)
EXTENDS Integers, Sequences, FiniteSets, TLC

VARIABLES
    pc,                \* position of the modelled process
    environ,           \* os.environ restricted to the DOMAINTOOLS_* names
    dotenvCwd,         \* ./.env as parsed by load_dotenv
    dotenvDir,         \* <config_dir>/.env as parsed by load_dotenv
    jsonFile,          \* <config_dir>/config.json
    yamlFile,          \* the YAML config file found in the working directory
    yaml_config_file,  \* ConfigManager.yaml_config_file
    config,            \* ConfigManager.config
    hist,              \* the last two manager operations with their outcomes
    fileMode,          \* the permission bits of config.json, 0 while it does not exist
    client,            \* the DomainToolsClient under use: "none", "ready" or "failed"
    lastCall,          \* the last constructor or endpoint call with its outcome
    domains,           \* the argument of batch_domain_profiles
    task,              \* per item of the batch: "pending", "running" or "done"
    slots,             \* per item of the batch: the outcome of its task
    order,             \* the items of the batch in the order their calls completed
    attempts,          \* per item of the batch, or for a lone call: the vendor calls made
    batch,             \* what batch_domain_profiles gave its caller
    cli,               \* one run of the command line: its options, client and exit
    tree,              \* the data given to the tree rendering and the nodes it built
    summary,           \* the result given to a summary formatter and what it printed
    wrapper,           \* the dt-cli.py wrapper: what load_configuration found
    metrics            \* the MetricsCollector and the threads calling it

cfgVars == <<environ, dotenvCwd, dotenvDir, jsonFile, yamlFile, yaml_config_file, config, hist,
            fileMode>>

clientVars == <<client, lastCall, domains, task, slots, order, attempts, batch>>

\* the parts that stand apart from the manager, the client and the cli group
pureVars == <<tree, summary, wrapper, metrics>>

vars == <<pc, cfgVars, clientVars, cli, pureVars>>

(***************************************************************************)
(* Bounds                                                                  *)
(***************************************************************************)
\* number of values (environment variables, file keys) the set-up may write
MaxSet == 3

\* length of the longest list given to batch_domain_profiles
MaxDomains == 3

\* number of values the set-up of a command-line run may write
MaxCliSet == 2

\* number of domains given to a batch subcommand
MaxArgs == 3

\* levels of nesting of the structures given to the tree rendering
MaxNest == 12

\* length of the lists given to the tree rendering
MaxLen == 12

\* max_history of the metrics collector
MaxHistory == 2

\* collector calls started by the threads together
MaxOps == 3

\* calls of a function wrapped by track_performance
MaxCalls == 4

(***************************************************************************)
(* Values                                                                  *)
(***************************************************************************)
None == <<>>
Some(x) == <<x>>

Null == [t |-> "null", s |-> <<>>, n |-> 0]
StrV(x) == [t |-> "str", s |-> x, n |-> 0]
IntV(k) == [t |-> "int", s |-> <<>>, n |-> k]

EmptyMap == [k \in {} |-> Null]

Has(d, k) == k \in DOMAIN d

Digits == {"0", "1", "2", "3", "4", "5", "6", "7", "8", "9"}

DigitVal(c) ==
    CASE c = "0" -> 0 [] c = "1" -> 1 [] c = "2" -> 2 [] c = "3" -> 3
      [] c = "4" -> 4 [] c = "5" -> 5 [] c = "6" -> 6 [] c = "7" -> 7
      [] c = "8" -> 8 [] c = "9" -> 9

RECURSIVE LStrip(_)
LStrip(s) == IF Len(s) > 0 /\ Head(s) = " " THEN LStrip(Tail(s)) ELSE s

RECURSIVE RStrip(_)
RStrip(s) ==
    IF Len(s) > 0 /\ s[Len(s)] = " " THEN RStrip(SubSeq(s, 1, Len(s) - 1)) ELSE s

Strip(s) == RStrip(LStrip(s))

RECURSIVE DigitsValue(_, _)
DigitsValue(s, acc) ==
    IF Len(s) = 0 THEN acc ELSE DigitsValue(Tail(s), acc * 10 + DigitVal(Head(s)))

\* the digits of an integer literal, after the blanks and the sign
LiteralBody(s) ==
    LET t == Strip(s)
    IN  IF Len(t) > 0 /\ Head(t) \in {"+", "-"} THEN Tail(t) ELSE t

\* int(value) does not raise ValueError
IntLiteral(s) ==
    LET b == LiteralBody(s)
    IN  Len(b) > 0 /\ \A i \in 1..Len(b) : b[i] \in Digits

\* int(value)
PyInt(s) ==
    LET t == Strip(s)
        m == DigitsValue(LiteralBody(s), 0)
    IN  IF Head(t) = "-" THEN 0 - m ELSE m

(***************************************************************************)
(* DomainToolsConfig: the pydantic model and its validation                *)
(***************************************************************************)
ConfigKeys == {"api_key", "api_secret", "api_url", "timeout", "max_retries", "output_format"}

DefaultTimeout == 30
DefaultMaxRetries == 3
DefaultOutputFormat == <<"j", "s", "o", "n">>

\* an int field accepts an int, or a string that reads as one
IntFieldOk(v) == v.t = "int" \/ (v.t = "str" /\ IntLiteral(v.s))

IntFieldValue(v) == IF v.t = "int" THEN v.n ELSE PyInt(v.s)

\* DomainToolsConfig(**d) does not raise ValidationError
ConfigValid(d) ==
    /\ Has(d, "api_key") /\ d["api_key"].t = "str"
    /\ Has(d, "api_secret") /\ d["api_secret"].t = "str"
    /\ Has(d, "api_url") => d["api_url"].t \in {"str", "null"}
    /\ Has(d, "timeout") => IntFieldOk(d["timeout"])
    /\ Has(d, "max_retries") => IntFieldOk(d["max_retries"])
    /\ Has(d, "output_format") => d["output_format"].t = "str"

\* DomainToolsConfig(**d), for a d that validates
DomainToolsConfig(d) ==
    [api_key       |-> d["api_key"].s,
     api_secret    |-> d["api_secret"].s,
     api_url       |-> IF Has(d, "api_url") THEN d["api_url"] ELSE Null,
     timeout       |-> IF Has(d, "timeout") THEN IntFieldValue(d["timeout"])
                       ELSE DefaultTimeout,
     max_retries   |-> IF Has(d, "max_retries") THEN IntFieldValue(d["max_retries"])
                       ELSE DefaultMaxRetries,
     output_format |-> IF Has(d, "output_format") THEN d["output_format"].s
                       ELSE DefaultOutputFormat]

(***************************************************************************)
(* Files                                                                   *)
(***************************************************************************)
\* config.json: absent, not parsable, a JSON value that is no object, an object
NoJson == [kind |-> "none", d |-> EmptyMap]
JsonMalformed == [kind |-> "malformed", d |-> EmptyMap]
JsonNonDict == [kind |-> "nondict", d |-> EmptyMap]
JsonDict(d) == [kind |-> "dict", d |-> d]

\* a section of the YAML document: absent, a scalar, a mapping
NoSection == [kind |-> "none", d |-> EmptyMap]
ScalarSection == [kind |-> "scalar", d |-> EmptyMap]
DictSection(d) == [kind |-> "dict", d |-> d]

\* the YAML file: absent, not parsable, an empty document, a mapping
NoYaml == [kind |-> "none", api |-> NoSection, settings |-> NoSection]
YamlMalformed == [kind |-> "malformed", api |-> NoSection, settings |-> NoSection]
YamlEmpty == [kind |-> "empty", api |-> NoSection, settings |-> NoSection]
YamlDict(a, s) == [kind |-> "dict", api |-> a, settings |-> s]

(***************************************************************************)
(* ConfigManager.load                                                      *)
(***************************************************************************)
IntKeys == {"timeout", "max_retries"}

\* env_mappings, read from the configuration key to the variable name
EnvVarOf ==
    [k \in ConfigKeys |->
        CASE k = "api_key" -> "DOMAINTOOLS_API_KEY"
          [] k = "api_secret" -> "DOMAINTOOLS_API_SECRET"
          [] k = "api_url" -> "DOMAINTOOLS_API_URL"
          [] k = "timeout" -> "DOMAINTOOLS_TIMEOUT"
          [] k = "max_retries" -> "DOMAINTOOLS_MAX_RETRIES"
          [] k = "output_format" -> "DOMAINTOOLS_OUTPUT_FORMAT"]

EnvVars == {EnvVarOf[k] : k \in ConfigKeys}

\* d.get(k) and d.get(k, default) on a YAML section
Get(d, k, default) == IF Has(d, k) THEN d[k] ELSE default

S_table == <<"t", "a", "b", "l", "e">>

\* the keys the "api" section contributes to config_data
YamlApiData(a) ==
    IF a.kind = "dict"
    THEN [k \in {"api_key", "api_secret", "api_url"} |->
            CASE k = "api_key" -> Get(a.d, "key", Null)
              [] k = "api_secret" -> Get(a.d, "secret", Null)
              [] k = "api_url" -> Get(a.d, "url", Null)]
    ELSE EmptyMap

\* the keys the "settings" section contributes to config_data
YamlSettingsData(s) ==
    IF s.kind = "dict"
    THEN [k \in {"timeout", "max_retries", "output_format"} |->
            CASE k = "timeout" -> Get(s.d, "timeout", IntV(DefaultTimeout))
              [] k = "max_retries" -> Get(s.d, "max_retries", IntV(DefaultMaxRetries))
              [] k = "output_format" -> Get(s.d, "output_format", StrV(S_table))]
    ELSE EmptyMap

\* config_data after the file has been read, or the exception that escapes
FileStage(ycf, y, j) ==
    IF ycf # None /\ y.kind # "none"
    THEN IF y.kind \in {"malformed", "empty"}
         THEN [err |-> "none", data |-> EmptyMap]
         ELSE IF y.api.kind = "scalar" \/ y.settings.kind = "scalar"
              THEN [err |-> "AttributeError", data |-> EmptyMap]
              ELSE [err |-> "none",
                    data |-> YamlApiData(y.api) @@ YamlSettingsData(y.settings)]
    ELSE IF j.kind = "dict" THEN [err |-> "none", data |-> j.d]
         ELSE IF j.kind = "nondict" THEN [err |-> "TypeError", data |-> EmptyMap]
         ELSE [err |-> "none", data |-> EmptyMap]

\* the environment variable of key k is set, non-empty and usable
EnvApplies(env, k) ==
    /\ Has(env, EnvVarOf[k])
    /\ Len(env[EnvVarOf[k]]) > 0
    /\ k \in IntKeys => IntLiteral(env[EnvVarOf[k]])

\* the assignments the loop over env_mappings makes
EnvData(env) ==
    [k \in {x \in ConfigKeys : EnvApplies(env, x)} |->
        IF k \in IntKeys THEN IntV(PyInt(env[EnvVarOf[k]])) ELSE StrV(env[EnvVarOf[k]])]

\* MergeEnv with the file's value kept where the file has one
MergeEnvFileWins(d, e) == d @@ e

\* config_data[config_key] = value, for every assignment e on top of d
MergeEnv(d, e) == e @@ d

Ok(c) == [kind |-> "ok", cfg |-> Some(c)]
Raise(x) == [kind |-> x, cfg |-> None]

\* what load() returns or raises
LoadOutcome(ycf, y, j, env) ==
    LET fs == FileStage(ycf, y, j)
    IN  IF fs.err # "none" THEN Raise(fs.err)
        ELSE LET d == MergeEnv(fs.data, EnvData(env))
             IN  IF ConfigValid(d) THEN Ok(DomainToolsConfig(d)) ELSE Raise("ValueError")

\* LoadFrame with the YAML file dropped once it failed to parse
LoadFrameDropsYaml ==
    /\ UNCHANGED <<environ, dotenvCwd, dotenvDir, jsonFile, yamlFile, fileMode>>
    /\ yaml_config_file' = IF yamlFile.kind = "malformed" THEN None ELSE yaml_config_file

\* load() reads the files and the environment and writes none of them
LoadFrame ==
    UNCHANGED <<environ, dotenvCwd, dotenvDir, jsonFile, yamlFile, yaml_config_file, fileMode>>

Push(h, r) == IF Len(h) < 2 THEN Append(h, r) ELSE <<h[2], r>>

\* what load() prints: the warning of the YAML branch; the JSON branch passes silently
LoadPrints(ycf, y, j) ==
    IF ycf # None /\ y.kind = "malformed"
    THEN <<"Warning: Error reading YAML config">>
    ELSE <<>>

OpRec(op, arg, res, out) == [op |-> op, arg |-> arg, res |-> res, out |-> out]

Load ==
    /\ pc = "ready"
    /\ LET r == LoadOutcome(yaml_config_file, yamlFile, jsonFile, environ)
       IN  /\ config' = IF r.kind = "ok" THEN r.cfg ELSE config
           /\ hist' = Push(hist, OpRec("load", None, r,
                                        LoadPrints(yaml_config_file, yamlFile, jsonFile)))
    /\ LoadFrame
    /\ UNCHANGED pc
    /\ UNCHANGED <<clientVars, cli>>
    /\ UNCHANGED pureVars

(***************************************************************************)
(* ConfigManager.is_configured                                             *)
(***************************************************************************)
\* bool(config.api_key and config.api_secret), False on ValueError
IsConfiguredResult(r) ==
    IF r.kind = "ok"
    THEN IF Len(r.cfg[1].api_key) > 0 /\ Len(r.cfg[1].api_secret) > 0
         THEN [kind |-> "true", cfg |-> r.cfg]
         ELSE [kind |-> "false", cfg |-> r.cfg]
    ELSE IF r.kind = "ValueError" THEN [kind |-> "false", cfg |-> None]
    ELSE r

IsConfigured ==
    /\ pc = "ready"
    /\ LET r == LoadOutcome(yaml_config_file, yamlFile, jsonFile, environ)
       IN  /\ config' = IF r.kind = "ok" THEN r.cfg ELSE config
           /\ hist' = Push(hist, OpRec("is_configured", None, IsConfiguredResult(r),
                                        LoadPrints(yaml_config_file, yamlFile, jsonFile)))
    /\ LoadFrame
    /\ UNCHANGED pc
    /\ UNCHANGED <<clientVars, cli>>
    /\ UNCHANGED pureVars

(***************************************************************************)
(* ConfigManager.save and ConfigManager.clear                              *)
(***************************************************************************)
\* DumpSecret with the secret written as its masked display form
DumpSecretMasked(s) == StrV(IF Len(s) > 0 THEN <<"*", "*", "*", "*">> ELSE <<>>)

\* config_dict["api_secret"].get_secret_value()
DumpSecret(s) == StrV(s)

\* the permission bits of a file created under the usual umask: 0o644
CreatedMode == 420

\* 0o600: read and write for the owner only
OwnerOnly == 384

\* open(self.config_file, "w"): an existing file keeps its permission bits
OpenForWrite(j, mode) == IF j.kind = "none" THEN CreatedMode ELSE mode

\* Chmod with the permission bits left as open() gave them
ChmodSkipped(mode) == mode

\* self.config_file.chmod(0o600)
Chmod(mode) == OwnerOnly

\* the JSON object json.dump writes for model_dump()
ModelDump(c) ==
    [k \in ConfigKeys |->
        CASE k = "api_key" -> StrV(c.api_key)
          [] k = "api_secret" -> DumpSecret(c.api_secret)
          [] k = "api_url" -> c.api_url
          [] k = "timeout" -> IntV(c.timeout)
          [] k = "max_retries" -> IntV(c.max_retries)
          [] k = "output_format" -> StrV(c.output_format)]

S_sk == <<"s", "k">>
S_ss == <<"s", "s">>
S_su == <<"s", "u">>
S_tree == <<"t", "r", "e", "e">>

\* keyword arguments a caller builds a DomainToolsConfig from
SaveKwargs ==
    {[k \in ks \cup {"api_key", "api_secret"} |->
        CASE k = "api_key" -> StrV(S_sk)
          [] k = "api_secret" -> StrV(S_ss)
          [] k = "api_url" -> StrV(S_su)
          [] k = "timeout" -> IntV(120)
          [] k = "output_format" -> StrV(S_tree)] :
     ks \in {{}, {"api_url", "timeout", "output_format"}}}

SaveConfigs == {DomainToolsConfig(d) : d \in {x \in SaveKwargs : ConfigValid(x)}}

Save(arg) ==
    /\ pc = "ready"
    /\ LET cur == IF arg # None THEN arg ELSE config
       IN  /\ config' = cur
           /\ IF cur = None
              THEN /\ hist' = Push(hist, OpRec("save", arg, Raise("ValueError"), <<>>))
                   /\ UNCHANGED <<jsonFile, fileMode>>
              ELSE /\ hist' = Push(hist, OpRec("save", arg, [kind |-> "ok", cfg |-> cur], <<>>))
                   /\ jsonFile' = JsonDict(ModelDump(cur[1]))
                   /\ fileMode' = Chmod(OpenForWrite(jsonFile, fileMode))
    /\ UNCHANGED <<pc, environ, dotenvCwd, dotenvDir, yamlFile, yaml_config_file>>
    /\ UNCHANGED <<clientVars, cli>>
    /\ UNCHANGED pureVars

Clear ==
    /\ pc = "ready"
    /\ jsonFile' = NoJson
    /\ config' = None
    /\ hist' = Push(hist, OpRec("clear", None, [kind |-> "ok", cfg |-> None], <<>>))
    /\ UNCHANGED <<pc, environ, dotenvCwd, dotenvDir, yamlFile, yaml_config_file>>
    /\ UNCHANGED <<clientVars, cli>>
    /\ fileMode' = 0
    /\ UNCHANGED pureVars

(***************************************************************************)
(* ConfigManager.update                                                    *)
(***************************************************************************)
\* update(**kw) on a manager holding configuration c, r being what load() gives:
\* load's exception propagates; else the dump of the configuration, overwritten
\* by kw, is validated again
\* UpdateDict built from the keyword arguments alone
UpdateDictFromDefaults(base, kw) ==
    kw @@ [k \in {"api_key", "api_secret"} |-> ModelDump(base)[k]]

\* config_dict = self.config.model_dump(); config_dict.update(kwargs)
UpdateDict(base, kw) == kw @@ ModelDump(base)

UpdateOutcome(c, r, kw) ==
    IF c = None /\ r.kind # "ok" THEN r
    ELSE LET base == IF c # None THEN c[1] ELSE r.cfg[1]
             d == UpdateDict(base, kw)
         IN  IF ConfigValid(d) THEN Ok(DomainToolsConfig(d)) ELSE Raise("ValidationError")

\* update(**kw): self.load() when no configuration is held, then the new
\* configuration replaces the held one once it validates
Update(kw) ==
    /\ pc = "ready"
    /\ LET l == LoadOutcome(yaml_config_file, yamlFile, jsonFile, environ)
           r == UpdateOutcome(config, l, kw)
       IN  /\ config' = IF r.kind = "ok" THEN r.cfg
                         ELSE IF config = None /\ l.kind = "ok" THEN l.cfg ELSE config
           /\ hist' = Push(hist, OpRec("update", Some(kw), r,
                                        IF config = None
                                        THEN LoadPrints(yaml_config_file, yamlFile, jsonFile)
                                        ELSE <<>>))
    /\ LoadFrame
    /\ UNCHANGED pc
    /\ UNCHANGED <<clientVars, cli>>
    /\ UNCHANGED pureVars

(***************************************************************************)
(* The set-up: the environment and the files the process starts in         *)
(***************************************************************************)
S_ek == <<"e", "k">>
S_es == <<"e", "s">>
S_eu == <<"e", "u">>
S_jk == <<"j", "k">>
S_js == <<"j", "s">>
S_ju == <<"j", "u">>
S_yk == <<"y", "k">>
S_ys == <<"y", "s">>
S_yu == <<"y", "u">>
S_dk == <<"d", "k">>
S_60 == <<"6", "0">>
S_7 == <<"7">>
S_neg5 == <<"-", "5">>
S_abc == <<"a", "b", "c">>
S_xml == <<"x", "m", "l">>

\* the values the set-up gives an environment variable
EnvValues(var) ==
    CASE var = "DOMAINTOOLS_API_KEY" -> {S_ek, <<>>}
      [] var = "DOMAINTOOLS_API_SECRET" -> {S_es}
      [] var = "DOMAINTOOLS_API_URL" -> {S_eu}
      [] var = "DOMAINTOOLS_TIMEOUT" -> {S_60, S_abc, S_neg5}
      [] var = "DOMAINTOOLS_MAX_RETRIES" -> {S_7}
      [] var = "DOMAINTOOLS_OUTPUT_FORMAT" -> {S_table}

\* the values the set-up gives a key of config.json
JsonValues(k) ==
    CASE k = "api_key" -> {StrV(S_jk), StrV(<<>>), Null}
      [] k = "api_secret" -> {StrV(S_js), StrV(<<>>)}
      [] k = "api_url" -> {StrV(S_ju), Null}
      [] k = "timeout" -> {IntV(45), StrV(S_abc)}
      [] k = "max_retries" -> {IntV(5)}
      [] k = "output_format" -> {StrV(S_tree), StrV(S_xml)}

YamlKeys(sec) ==
    IF sec = "api" THEN {"key", "secret", "url"}
    ELSE {"timeout", "max_retries", "output_format"}

\* the values the set-up gives a key of a section of the YAML file
YamlValues(k) ==
    CASE k = "key" -> {StrV(S_yk)}
      [] k = "secret" -> {StrV(S_ys)}
      [] k = "url" -> {StrV(S_yu)}
      [] k = "timeout" -> {IntV(60)}
      [] k = "max_retries" -> {IntV(5)}
      [] k = "output_format" -> {StrV(S_tree)}

DotenvVars == {"DOMAINTOOLS_API_KEY"}

DotenvValues(var) == {S_dk}

\* how many values the set-up has written; a file written with unusable
\* content, and a scalar section, count as one value each
NumSet ==
    Cardinality(DOMAIN environ) + Cardinality(DOMAIN dotenvCwd)
    + Cardinality(DOMAIN dotenvDir) + Cardinality(DOMAIN jsonFile.d)
    + Cardinality(DOMAIN yamlFile.api.d) + Cardinality(DOMAIN yamlFile.settings.d)
    + (IF jsonFile.kind \in {"malformed", "nondict"} THEN 1 ELSE 0)
    + (IF yamlFile.kind \in {"malformed", "empty"} THEN 1 ELSE 0)
    + (IF yamlFile.api.kind = "scalar" THEN 1 ELSE 0)
    + (IF yamlFile.settings.kind = "scalar" THEN 1 ELSE 0)

\* the set-up of a command-line run is the smaller one
Budget ==
    IF wrapper.phase = "start" THEN MaxCliSet
    ELSE IF wrapper.phase # "off" THEN 0
    ELSE IF cli.phase = "off" THEN MaxSet ELSE MaxCliSet

PutEnv(var, val) ==
    /\ pc = "setup"
    /\ NumSet < Budget
    /\ ~Has(environ, var)
    /\ environ' = (var :> val) @@ environ
    /\ UNCHANGED <<pc, dotenvCwd, dotenvDir, jsonFile, yamlFile, yaml_config_file, config, hist>>
    /\ UNCHANGED <<clientVars, cli>>
    /\ UNCHANGED fileMode
    /\ UNCHANGED pureVars

PutDotenvCwd(var, val) ==
    /\ pc = "setup"
    /\ NumSet < Budget
    /\ ~Has(dotenvCwd, var)
    /\ dotenvCwd' = (var :> val) @@ dotenvCwd
    /\ UNCHANGED <<pc, environ, dotenvDir, jsonFile, yamlFile, yaml_config_file, config, hist>>
    /\ UNCHANGED <<clientVars, cli>>
    /\ UNCHANGED fileMode
    /\ UNCHANGED pureVars

PutDotenvDir(var, val) ==
    /\ pc = "setup"
    /\ NumSet < Budget
    /\ ~Has(dotenvDir, var)
    /\ dotenvDir' = (var :> val) @@ dotenvDir
    /\ UNCHANGED <<pc, environ, dotenvCwd, jsonFile, yamlFile, yaml_config_file, config, hist>>
    /\ UNCHANGED <<clientVars, cli>>
    /\ UNCHANGED fileMode
    /\ UNCHANGED pureVars

\* config.json is written with text that is not JSON, or not a JSON object
WriteBadJson(kind) ==
    /\ pc = "setup"
    /\ NumSet < Budget
    /\ jsonFile.kind = "none"
    /\ jsonFile' = [kind |-> kind, d |-> EmptyMap]
    /\ UNCHANGED <<pc, environ, dotenvCwd, dotenvDir, yamlFile, yaml_config_file, config, hist>>
    /\ UNCHANGED <<clientVars, cli>>
    /\ fileMode' = CreatedMode
    /\ UNCHANGED pureVars

PutJson(k, v) ==
    /\ pc = "setup"
    /\ NumSet < Budget
    /\ jsonFile.kind \in {"none", "dict"}
    /\ ~Has(jsonFile.d, k)
    /\ jsonFile' = JsonDict((k :> v) @@ jsonFile.d)
    /\ UNCHANGED <<pc, environ, dotenvCwd, dotenvDir, yamlFile, yaml_config_file, config, hist>>
    /\ UNCHANGED <<clientVars, cli>>
    /\ fileMode' = CreatedMode
    /\ UNCHANGED pureVars

\* the YAML file is written with text that is not YAML, or with an empty document
WriteBadYaml(kind) ==
    /\ pc = "setup"
    /\ NumSet < Budget
    /\ yamlFile.kind = "none"
    /\ yamlFile' = [kind |-> kind, api |-> NoSection, settings |-> NoSection]
    /\ UNCHANGED <<pc, environ, dotenvCwd, dotenvDir, jsonFile, yaml_config_file, config, hist>>
    /\ UNCHANGED <<clientVars, cli>>
    /\ UNCHANGED fileMode
    /\ UNCHANGED pureVars

\* the YAML file gets a section that is a scalar instead of a mapping
PutYamlScalar(sec) ==
    /\ pc = "setup"
    /\ NumSet < Budget
    /\ yamlFile.kind \in {"none", "dict"}
    /\ yamlFile[sec].kind = "none"
    /\ yamlFile' = [yamlFile EXCEPT !.kind = "dict", ![sec] = ScalarSection]
    /\ UNCHANGED <<pc, environ, dotenvCwd, dotenvDir, jsonFile, yaml_config_file, config, hist>>
    /\ UNCHANGED <<clientVars, cli>>
    /\ UNCHANGED fileMode
    /\ UNCHANGED pureVars

PutYaml(sec, k, v) ==
    /\ pc = "setup"
    /\ NumSet < Budget
    /\ yamlFile.kind \in {"none", "dict"}
    /\ yamlFile[sec].kind \in {"none", "dict"}
    /\ ~Has(yamlFile[sec].d, k)
    /\ yamlFile' = [yamlFile EXCEPT !.kind = "dict",
                                    ![sec] = DictSection((k :> v) @@ yamlFile[sec].d)]
    /\ UNCHANGED <<pc, environ, dotenvCwd, dotenvDir, jsonFile, yaml_config_file, config, hist>>
    /\ UNCHANGED <<clientVars, cli>>
    /\ UNCHANGED fileMode
    /\ UNCHANGED pureVars

(***************************************************************************)
(* ConfigManager.__init__                                                  *)
(***************************************************************************)
\* load_dotenv(path): sets the variables the environment does not have yet
LoadDotenv(env, file) == env @@ file

Construct ==
    /\ pc = "setup"
    /\ pc' = "ready"
    /\ yaml_config_file' = IF yamlFile.kind # "none" THEN Some("yaml") ELSE None
    /\ config' = None
    /\ environ' = LoadDotenv(LoadDotenv(environ, dotenvCwd), dotenvDir)
    /\ UNCHANGED <<dotenvCwd, dotenvDir, jsonFile, yamlFile, hist>>
    /\ UNCHANGED <<clientVars, cli>>
    /\ UNCHANGED fileMode
    /\ UNCHANGED pureVars

(***************************************************************************)
(* DomainToolsClient: error translation                                    *)
(***************************************************************************)
S_ratelimit == <<"r", "a", "t", "e", " ", "l", "i", "m", "i", "t">>
S_unexpected == <<"U", "n", "e", "x", "p", "e", "c", "t", "e", "d", " ", "e", "r", "r", "o", "r", ":", " ">>
S_initfail == <<"F", "a", "i", "l", "e", "d", " ", "t", "o", " ", "i", "n", "i", "t", "i", "a", "l", "i", "z", "e", " ", "A", "P", "I", " ", "c", "l", "i", "e", "n", "t", ":", " ">>

\* str.lower() on one character
LowerChar(c) ==
    CASE c = "A" -> "a" [] c = "B" -> "b" [] c = "C" -> "c" [] c = "D" -> "d"
      [] c = "E" -> "e" [] c = "F" -> "f" [] c = "G" -> "g" [] c = "H" -> "h"
      [] c = "I" -> "i" [] c = "J" -> "j" [] c = "K" -> "k" [] c = "L" -> "l"
      [] c = "M" -> "m" [] c = "N" -> "n" [] c = "O" -> "o" [] c = "P" -> "p"
      [] c = "Q" -> "q" [] c = "R" -> "r" [] c = "S" -> "s" [] c = "T" -> "t"
      [] c = "U" -> "u" [] c = "V" -> "v" [] c = "W" -> "w" [] c = "X" -> "x"
      [] c = "Y" -> "y" [] c = "Z" -> "z" [] OTHER -> c

\* Lower with the letter case left as it is
LowerKeepsCase(s) == s

\* str(e).lower()
Lower(s) == [i \in 1..Len(s) |-> LowerChar(s[i])]

\* sub in s
Contains(s, sub) ==
    \E i \in 1..(Len(s) - Len(sub) + 1) : SubSeq(s, i, i + Len(sub) - 1) = sub

\* the vendor's exception classes that derive from ServiceException
ServiceSubclasses == {"NotAuthorizedException", "BadRequestException", "NotFoundException"}

\* isinstance(e, cls)
IsInstance(e, cls) ==
    \/ e.type = cls
    \/ cls = "ServiceException" /\ e.type \in ServiceSubclasses

\* an outcome of a call: a returned mapping, or a raised exception
Returned(q, payload) == [kind |-> "ok", query |-> q, payload |-> payload, msg |-> <<>>]
Raised(kind, msg) == [kind |-> kind, query |-> "", payload |-> 0, msg |-> msg]

\* _handle_exception(e): the exception it raises
HandleException(e) ==
    IF IsInstance(e, "NotAuthorizedException") THEN Raised("AuthenticationError", e.msg)
    ELSE IF IsInstance(e, "BadRequestException") THEN Raised("InvalidRequestError", e.msg)
    ELSE IF IsInstance(e, "ServiceException")
         THEN IF Contains(Lower(e.msg), S_ratelimit)
              THEN Raised("RateLimitError", e.msg)
              ELSE Raised("DomainToolsError", e.msg)
    ELSE Raised("DomainToolsError", S_unexpected \o e.msg)

(***************************************************************************)
(* DomainToolsClient: the constructor and the endpoint methods             *)
(***************************************************************************)
\* the methods that call the vendor's client, the async variants included
Endpoints ==
    {"domain_profile", "domain_search", "iris_investigate", "iris_enrich", "iris_detect",
     "whois", "whois_history", "reverse_ip", "reverse_whois", "host_domains",
     "name_server_monitor", "registrant_monitor", "reputation", "parsed_whois",
     "brand_monitor", "async_domain_profile", "async_domain_search"}

M_creds == <<"I", "n", "v", "a", "l", "i", "d", " ", "c", "r", "e", "d", "e", "n", "t", "i", "a", "l", "s">>
M_bad == <<"B", "a", "d", " ", "r", "e", "q", "u", "e", "s", "t">>
M_rate == <<"R", "a", "t", "e", " ", "l", "i", "m", "i", "t", " ", "e", "x", "c", "e", "e", "d", "e", "d">>
M_RATE == <<"R", "A", "T", "E", " ", "L", "I", "M", "I", "T">>
M_nospace == <<"r", "a", "t", "e", "l", "i", "m", "i", "t">>
M_down == <<"S", "e", "r", "v", "i", "c", "e", " ", "u", "n", "a", "v", "a", "i", "l", "a", "b", "l", "e">>

\* what the vendor's client does with a call: it returns data or raises
VendorRaises ==
    {[raises |-> TRUE, type |-> "NotAuthorizedException", msg |-> M_creds, payload |-> 0],
     [raises |-> TRUE, type |-> "NotAuthorizedException", msg |-> M_rate, payload |-> 0],
     [raises |-> TRUE, type |-> "BadRequestException", msg |-> M_bad, payload |-> 0],
     [raises |-> TRUE, type |-> "ServiceException", msg |-> M_rate, payload |-> 0],
     [raises |-> TRUE, type |-> "ServiceException", msg |-> M_RATE, payload |-> 0],
     [raises |-> TRUE, type |-> "ServiceException", msg |-> M_nospace, payload |-> 0],
     [raises |-> TRUE, type |-> "NotFoundException", msg |-> M_down, payload |-> 0],
     [raises |-> TRUE, type |-> "ValueError", msg |-> M_rate, payload |-> 0],
     [raises |-> TRUE, type |-> "ConnectionError", msg |-> M_down, payload |-> 0]}

VendorReturns == {[raises |-> FALSE, type |-> "", msg |-> <<>>, payload |-> 1]}

VendorOutcomes == VendorReturns \cup VendorRaises

\* what the vendor's client does with the calls of a batch
BatchVendorOutcomes ==
    VendorReturns \cup
    {o \in VendorRaises : \/ o.type = "ServiceException" /\ o.msg = M_rate
                          \/ o.type = "ConnectionError"}

Queries == {"a.com", "b.com"}

\* EndpointCall with whois_history lacking its try/except
EndpointCallUnguarded(m, q, o) ==
    IF o.raises
    THEN IF m = "whois_history" THEN Raised(o.type, o.msg) ELSE HandleException(o)
    ELSE Returned(q, o.payload)

\* self.api.<m>(q).data() inside try/except Exception: self._handle_exception(e)
EndpointCall(m, q, o) ==
    IF o.raises THEN HandleException(o) ELSE Returned(q, o.payload)

NoCall == [op |-> "", vendor |-> [raises |-> FALSE, type |-> "", msg |-> <<>>, payload |-> 0],
           res |-> Raised("", <<>>)]

NoBatch == [kind |-> "none", list |-> <<>>]

\* DomainToolsClient(api_key, api_secret, api_url)
NewClient(o) ==
    /\ client = "none"
    /\ IF o.raises
       THEN /\ client' = "failed"
            /\ lastCall' = [op |-> "__init__", vendor |-> o,
                            res |-> Raised("AuthenticationError", S_initfail \o o.msg)]
       ELSE /\ client' = "ready"
            /\ lastCall' = [op |-> "__init__", vendor |-> o, res |-> Returned("", 0)]
    /\ UNCHANGED <<domains, task, slots, order, attempts, batch>>
    /\ UNCHANGED <<pc, cfgVars, cli>>
    /\ UNCHANGED pureVars

\* VendorCalls with the call repeated max_retries times after a failure
VendorCallsRetried(o) == IF o.raises THEN 1 + DefaultMaxRetries ELSE 1

\* the calls of the vendor's method one endpoint call makes: the method is
\* called once inside the try, and the except clause re-raises
VendorCalls(o) == 1

\* one call of an endpoint method, or of an async variant awaited alone
Call(m, q, o) ==
    /\ client = "ready"
    /\ batch.kind = "none"
    /\ Len(domains) = 0
    /\ lastCall' = [op |-> m, vendor |-> o, res |-> EndpointCall(m, q, o)]
    /\ attempts' = <<VendorCalls(o)>>
    /\ UNCHANGED <<client, domains, task, slots, order, batch>>
    /\ UNCHANGED <<pc, cfgVars, cli>>
    /\ UNCHANGED pureVars

(***************************************************************************)
(* DomainToolsClient.batch_domain_profiles                                 *)
(***************************************************************************)
\* ReturnExceptions switched off
ReturnExceptionsOff == FALSE

\* asyncio.gather(*tasks, return_exceptions=True)
ReturnExceptions == TRUE

\* GatherList with the outcomes in the order the calls completed
GatherListAsCompleted(res, ord) == [i \in 1..Len(ord) |-> res[ord[i]]]

\* the list gather returns: the outcome of the i-th awaitable at position i
GatherList(res, ord) == [i \in 1..Len(res) |-> res[i]]

\* the threads of the loop's default executor: min(32, cpu_count + 4) >= 5
ExecutorWorkers == 5

\* the items whose call has started and not settled
Running == {i \in 1..Len(task) : task[i] = "running"}

\* the batch command's call: client.batch_domain_profiles(list(domains))
ProcessBatch(ds, concurrent) == ds

\* what --concurrent may hold (5 by default)
ConcurrentOptions == {1, 2, 5}

\* tasks = [self.async_domain_profile(domain) for domain in domains]
BatchStart(ds) ==
    /\ client = "ready"
    /\ batch.kind = "none"
    /\ Len(domains) = 0
    /\ Len(ds) > 0
    /\ domains' = ds
    /\ task' = [i \in 1..Len(ds) |-> "pending"]
    /\ slots' = [i \in 1..Len(ds) |-> Raised("", <<>>)]
    /\ order' = <<>>
    /\ attempts' = [i \in 1..Len(ds) |-> 0]
    /\ lastCall' = NoCall
    /\ UNCHANGED <<client, batch>>
    /\ UNCHANGED <<pc, cfgVars, cli>>
    /\ UNCHANGED pureVars

\* the task of item i runs: loop.run_in_executor(None, self.domain_profile, domain)
TaskStart(i) ==
    /\ batch.kind = "none"
    /\ i \in 1..Len(domains)
    /\ task[i] = "pending"
    /\ Cardinality(Running) < ExecutorWorkers
    /\ task' = [task EXCEPT ![i] = "running"]
    /\ UNCHANGED <<client, lastCall, domains, slots, order, attempts, batch>>
    /\ UNCHANGED <<pc, cfgVars, cli>>
    /\ UNCHANGED pureVars

\* the call of item i completes in its worker thread
TaskFinish(i, o) ==
    /\ i \in 1..Len(domains)
    /\ task[i] = "running"
    /\ task' = [task EXCEPT ![i] = "done"]
    /\ slots' = [slots EXCEPT ![i] = EndpointCall("domain_profile", domains[i], o)]
    /\ order' = Append(order, i)
    /\ attempts' = [attempts EXCEPT ![i] = VendorCalls(o)]
    /\ UNCHANGED <<client, lastCall, domains, batch>>
    /\ UNCHANGED <<pc, cfgVars, cli>>
    /\ UNCHANGED pureVars

\* await asyncio.gather(...): with return_exceptions it returns once every task
\* has settled; without it the first exception of a task is raised at once
Gather ==
    /\ batch.kind = "none"
    /\ Len(domains) > 0
    /\ IF ~ReturnExceptions /\ \E i \in 1..Len(domains) : task[i] = "done" /\ slots[i].kind # "ok"
       THEN LET first == CHOOSE k \in 1..Len(order) :
                             /\ slots[order[k]].kind # "ok"
                             /\ \A l \in 1..(k - 1) : slots[order[l]].kind = "ok"
            IN  batch' = [kind |-> "raised", list |-> <<slots[order[first]]>>]
       ELSE /\ \A i \in 1..Len(domains) : task[i] = "done"
            /\ batch' = [kind |-> "returned", list |-> GatherList(slots, order)]
    /\ UNCHANGED <<client, lastCall, domains, task, slots, order, attempts>>
    /\ UNCHANGED <<pc, cfgVars, cli>>
    /\ UNCHANGED pureVars

(***************************************************************************)
(* The command line: the cli group and its subcommands                     *)
(***************************************************************************)
S_ck == <<"c", "k">>
S_cs == <<"c", "s">>

\* what --api-key and --api-secret may hold on the command line
KeyOptions == {None, Some(S_ck)}
SecretOptions == {None, Some(S_cs)}

\* the subcommands that query the API, with the client method each one calls
CommandMethod ==
    [c \in {"domain profile", "domain whois", "domain history", "domain parsed",
            "iris investigate", "iris enrich", "iris detect",
            "monitor brand", "monitor registrant", "monitor nameserver",
            "reputation check", "reputation batch-check",
            "reverse ip", "reverse whois", "reverse nameserver",
            "search domain", "search reverse-whois", "search reverse-ip",
            "search host-domains",
            "whois lookup", "whois history", "whois parsed", "batch"} |->
        CASE c = "domain profile" -> "domain_profile"
          [] c = "domain whois" -> "whois"
          [] c = "domain history" -> "whois_history"
          [] c = "domain parsed" -> "parsed_whois"
          [] c = "iris investigate" -> "iris_investigate"
          [] c = "iris enrich" -> "iris_enrich"
          [] c = "iris detect" -> "iris_detect"
          [] c = "monitor brand" -> "brand_monitor"
          [] c = "monitor registrant" -> "registrant_monitor"
          [] c = "monitor nameserver" -> "name_server_monitor"
          [] c = "reputation check" -> "reputation"
          [] c = "reputation batch-check" -> "reputation"
          [] c = "reverse ip" -> "reverse_ip"
          [] c = "reverse whois" -> "reverse_whois"
          [] c = "reverse nameserver" -> "name_server_monitor"
          [] c = "search domain" -> "domain_search"
          [] c = "search reverse-whois" -> "reverse_whois"
          [] c = "search reverse-ip" -> "reverse_ip"
          [] c = "search host-domains" -> "host_domains"
          [] c = "whois lookup" -> "whois"
          [] c = "whois history" -> "whois_history"
          [] c = "whois parsed" -> "parsed_whois"
          [] c = "batch" -> "batch_domain_profiles"]

ApiCommands == DOMAIN CommandMethod

\* the subcommands that make one call per domain argument and go on after a failure
ManyCallCommands == {"batch", "reputation batch-check"}

CliOff == [phase |-> "off", key |-> None, secret |-> None, client |-> None,
           cmd |-> "", given |-> {}, exit |-> 0 - 1, printed |-> "", calls |-> 0,
           shown |-> <<>>]

CliStart == [CliOff EXCEPT !.phase = "start"]

\* an option declared with envvar=: the command line's value, else the
\* variable of the process environment when it is set and not empty
OptionValue(opt, env, var) ==
    IF opt # None THEN opt
    ELSE IF Has(env, var) /\ env[var] # <<>> THEN Some(env[var]) ELSE None

\* if x: for an optional string
Truthy(x) == x # None /\ x[1] # <<>>

\* cli(ctx, api_key, api_secret, config_dir, output)
CliGroup(kopt, sopt, ctorOk) ==
    /\ pc = "setup"
    /\ cli.phase = "start"
    /\ LET api_key == OptionValue(kopt, environ, "DOMAINTOOLS_API_KEY")
           api_secret == OptionValue(sopt, environ, "DOMAINTOOLS_API_SECRET")
           env == LoadDotenv(LoadDotenv(environ, dotenvCwd), dotenvDir)
           ycf == IF yamlFile.kind # "none" THEN Some("yaml") ELSE None
           r == IsConfiguredResult(LoadOutcome(ycf, yamlFile, jsonFile, env))
           opts == [cli EXCEPT !.key = api_key, !.secret = api_secret]
           failed == [opts EXCEPT !.phase = "group", !.printed = "Configuration error"]
       IN  /\ pc' = "ready"
           /\ environ' = env
           /\ yaml_config_file' = ycf
           /\ IF Truthy(api_key) /\ Truthy(api_secret)
              THEN /\ config' = None
                   /\ cli' = IF ctorOk
                             THEN [opts EXCEPT !.phase = "group",
                                               !.client = Some(<<api_key[1], api_secret[1]>>)]
                             ELSE failed
              ELSE /\ config' = r.cfg
                   /\ cli' = CASE r.kind = "true" ->
                                     IF ctorOk
                                     THEN [opts EXCEPT !.phase = "group",
                                               !.client = Some(<<r.cfg[1].api_key,
                                                                 r.cfg[1].api_secret>>)]
                                     ELSE failed
                               [] r.kind = "false" -> [opts EXCEPT !.phase = "group"]
                               [] OTHER -> [opts EXCEPT !.phase = "done", !.exit = 1,
                                                        !.printed = "Traceback"]
    /\ UNCHANGED <<dotenvCwd, dotenvDir, jsonFile, yamlFile, hist>>
    /\ UNCHANGED clientVars
    /\ UNCHANGED fileMode
    /\ UNCHANGED pureVars

\* how the calls and the rendering of a subcommand end
CallOutcomes == {"ok", "api_error", "render_error"}

\* a subcommand that queries the API, given n domain arguments: a subcommand of
\* one call exits 1 on any exception; batch shows a failed call inline and
\* exits 1 only when rendering raises; reputation batch-check turns every
\* exception of an item into an "Error" row
ApiSubcommand(c, n, o) ==
    /\ cli.phase = "group"
    /\ c \in ManyCallCommands \/ n = 1
    /\ LET end == [cli EXCEPT !.phase = "done", !.cmd = c]
       IN  cli' = IF cli.client = None
                  THEN [end EXCEPT !.exit = 1,
                                   !.printed = "Error: API credentials not configured"]
                  ELSE IF c = "batch"
                  THEN [end EXCEPT !.calls = n,
                                   !.exit = IF o = "render_error" THEN 1 ELSE 0,
                                   !.printed = CASE o = "ok" -> "results"
                                                 [] o = "api_error" -> "Error processing"
                                                 [] OTHER -> "Batch processing error"]
                  ELSE IF c = "reputation batch-check"
                  THEN [end EXCEPT !.calls = n, !.exit = 0,
                                   !.printed = IF o = "ok" THEN "results" ELSE "Error row"]
                  ELSE [end EXCEPT !.calls = 1,
                                   !.exit = IF o = "ok" THEN 0 ELSE 1,
                                   !.printed = IF o = "ok" THEN "results" ELSE "Error"]
    /\ UNCHANGED <<pc, cfgVars, clientVars>>
    /\ UNCHANGED pureVars

\* get_client: the keyword arguments it builds the DomainToolsClient with
GetClientArgs(c) ==
    [api_key |-> c.api_key, api_secret |-> c.api_secret, api_url |-> c.api_url]

\* DomainToolsClient.__init__: what it constructs the vendor's API object with
VendorApiArgs(a) ==
    [api_key |-> a.api_key, api_secret |-> a.api_secret, api_url |-> a.api_url]

\* the timeout a client's network calls run under: the one its vendor object
\* was constructed with, and the vendor's own default (None) when it got none
TimeoutInEffect(a) == IF Has(a, "timeout") THEN Some(a.timeout) ELSE None

\* config test: config_mgr.get_client() and one domain_profile call
ConfigTest(ctorOk, ok) ==
    /\ cli.phase = "group"
    /\ LET r == IF config # None THEN Ok(config[1])
                ELSE LoadOutcome(yaml_config_file, yamlFile, jsonFile, environ)
           end == [cli EXCEPT !.phase = "done", !.cmd = "config test"]
       IN  /\ config' = IF r.kind = "ok" THEN r.cfg ELSE config
           /\ cli' = IF r.kind = "ok" /\ ctorOk
                     THEN [end EXCEPT !.calls = 1,
                                      !.client = Some(<<r.cfg[1].api_key, r.cfg[1].api_secret>>),
                                      !.exit = IF ok THEN 0 ELSE 1,
                                      !.printed = IF ok THEN "API connection successful"
                                                  ELSE "API connection failed"]
                     ELSE [end EXCEPT !.exit = 1, !.printed = "API connection failed"]
    /\ UNCHANGED <<pc, environ, dotenvCwd, dotenvDir, jsonFile, yamlFile, yaml_config_file, hist>>
    /\ UNCHANGED clientVars
    /\ UNCHANGED fileMode
    /\ UNCHANGED pureVars

\* the data load() validates: the file's entries overlaid with the environment's
ConfigData(ycf, y, j, env) == MergeEnv(FileStage(ycf, y, j).data, EnvData(env))

\* the fields of d that DomainToolsConfig(**d) rejects for their type
WrongTyped(d) ==
    {k \in DOMAIN d :
        \/ k \in {"api_key", "api_secret", "output_format"} /\ d[k].t # "str"
        \/ k = "api_url" /\ d[k].t \notin {"str", "null"}
        \/ k \in IntKeys /\ ~IntFieldOk(d[k])}

\* the values the text of the ValidationError holds: each rejected field's line
\* carries the input it was given, and the line of a missing required field
\* carries the whole mapping handed to the model
ValidationErrorInputs(d) ==
    {d[k] : k \in WrongTyped(d)} \cup
    (IF Has(d, "api_key") /\ Has(d, "api_secret") THEN {} ELSE {d[k] : k \in DOMAIN d})

\* config.api_key[:10] + "...", or "Not set"
MaskedKey(key) ==
    IF Len(key) > 0 THEN SubSeq(key, 1, IF Len(key) < 10 THEN Len(key) ELSE 10) \o <<".", ".", ".">>
    ELSE <<"N", "o", "t", " ", "s", "e", "t">>

\* "****" if config.api_secret else "Not set"
MaskedSecret(secret) ==
    IF Len(secret) > 0 THEN <<"*", "*", "*", "*">> ELSE <<"N", "o", "t", " ", "s", "e", "t">>

\* the rows of the table of config show
ShowTable(c) ==
    [kind |-> "table",
     rows |-> [c EXCEPT !.api_key = MaskedKey(c.api_key),
                        !.api_secret = MaskedSecret(c.api_secret)],
     inputs |-> {}]

\* "No configuration found: {e}" for the exception load() raised
ShowError(kind, d) ==
    [kind |-> "error",
     rows |-> kind,
     inputs |-> IF kind = "ValueError" THEN ValidationErrorInputs(d) ELSE {}]

\* config show: load() and a table; a failure is printed and the command returns
ConfigShow ==
    /\ cli.phase = "group"
    /\ LET r == LoadOutcome(yaml_config_file, yamlFile, jsonFile, environ)
       IN  /\ config' = IF r.kind = "ok" THEN r.cfg ELSE config
           /\ cli' = [cli EXCEPT !.phase = "done", !.cmd = "config show", !.exit = 0,
                                 !.printed = IF r.kind = "ok" THEN "Current Configuration"
                                             ELSE "No configuration found",
                                 !.shown = IF r.kind = "ok" THEN <<ShowTable(r.cfg[1])>>
                                           ELSE <<ShowError(r.kind,
                                                    ConfigData(yaml_config_file, yamlFile,
                                                               jsonFile, environ))>>]
    /\ UNCHANGED <<pc, environ, dotenvCwd, dotenvDir, jsonFile, yamlFile, yaml_config_file, hist>>
    /\ UNCHANGED clientVars
    /\ UNCHANGED fileMode
    /\ UNCHANGED pureVars

\* what --api-key and --api-secret of config set may hold
SetKeyOptions == {None, Some(S_ck)}
SetSecretOptions == {None, Some(S_cs)}

\* updates = {...}: the options of config set that are given and not empty
SetUpdates(k, s) ==
    [x \in {y \in {"api_key", "api_secret"} :
               Truthy(IF y = "api_key" THEN k ELSE s)} |->
        IF x = "api_key" THEN StrV(k[1]) ELSE StrV(s[1])]

\* config set with --api-key and/or --api-secret: update, save, and the
\* connection test when the user accepts it
ConfigSet(k, s, test, ctorOk, ok) ==
    /\ cli.phase = "group"
    /\ Truthy(k) \/ Truthy(s)
    /\ LET r == UpdateOutcome(config, LoadOutcome(yaml_config_file, yamlFile, jsonFile, environ),
                              SetUpdates(k, s))
           end == [cli EXCEPT !.phase = "done", !.cmd = "config set",
                              !.given = DOMAIN SetUpdates(k, s)]
       IN  IF r.kind # "ok"
           THEN /\ cli' = [end EXCEPT !.exit = 1, !.printed = "Error saving configuration"]
                /\ UNCHANGED <<config, jsonFile, fileMode>>
           ELSE /\ config' = r.cfg
                /\ jsonFile' = JsonDict(ModelDump(r.cfg[1]))
                /\ fileMode' = Chmod(OpenForWrite(jsonFile, fileMode))
                /\ cli' = IF ~test
                          THEN [end EXCEPT !.exit = 0,
                                           !.printed = "Configuration saved successfully!"]
                          ELSE IF ctorOk
                          THEN [end EXCEPT !.exit = 0, !.calls = 1,
                                     !.client = Some(<<r.cfg[1].api_key, r.cfg[1].api_secret>>),
                                     !.printed = IF ok THEN "API connection successful!"
                                                 ELSE "API connection failed"]
                          ELSE [end EXCEPT !.exit = 0, !.printed = "API connection failed"]
    /\ UNCHANGED <<pc, environ, dotenvCwd, dotenvDir, yamlFile, yaml_config_file, hist>>
    /\ UNCHANGED clientVars
    /\ UNCHANGED pureVars

\* config clear: config_mgr.clear() when the user confirms
ConfigClear(yes) ==
    /\ cli.phase = "group"
    /\ jsonFile' = IF yes THEN NoJson ELSE jsonFile
    /\ config' = IF yes THEN None ELSE config
    /\ cli' = [cli EXCEPT !.phase = "done", !.cmd = "config clear", !.exit = 0,
                          !.printed = IF yes THEN "Configuration cleared"
                                      ELSE "Configuration not changed"]
    /\ UNCHANGED <<pc, environ, dotenvCwd, dotenvDir, yamlFile, yaml_config_file, hist>>
    /\ UNCHANGED clientVars
    /\ fileMode' = IF yes THEN 0 ELSE fileMode
    /\ UNCHANGED pureVars

(***************************************************************************)
(* The batch subcommand, item by item                                      *)
(***************************************************************************)
\* a profile whose "domain" entry is a string instead of a mapping
VendorReturnsOdd == {[raises |-> FALSE, type |-> "", msg |-> <<>>, payload |-> 2]}

\* what the vendor's client does with the calls of the batch subcommand
CommandVendorOutcomes == BatchVendorOutcomes \cup VendorReturnsOdd

\* formatter.format_domain_profile(result): profile.get("domain", {}).get(...)
\* raises AttributeError when the "domain" entry is not a mapping
FormatDomainProfile(res) == IF res.payload = 2 THEN "AttributeError" ELSE "ok"

Line(i, kind) == [item |-> i, kind |-> kind]

\* for i, result in enumerate(results): inside try/except Exception: sys.exit(1)
RECURSIVE PrintResults(_, _, _)
PrintResults(results, i, shown) ==
    IF i > Len(results) THEN [shown |-> shown, exit |-> 0, printed |-> "results"]
    ELSE IF results[i].kind # "ok"
    THEN PrintResults(results, i + 1, Append(shown, Line(i, "Error processing")))
    ELSE IF FormatDomainProfile(results[i]) = "ok"
    THEN PrintResults(results, i + 1, Append(shown, Line(i, "Results for")) \o <<Line(i, "profile")>>)
    ELSE [shown |-> Append(shown, Line(i, "Results for")), exit |-> 1,
          printed |-> "Batch processing error"]

\* batch(ctx, domains, concurrent) with a client: the calls, then the output
BatchCommand(ds, os) ==
    /\ cli.phase = "group"
    /\ cli.client # None
    /\ Len(domains) = 0
    /\ LET res == [i \in 1..Len(ds) |-> EndpointCall("domain_profile", ds[i], os[i])]
           results == GatherList(res, <<>>)
           p == PrintResults(results, 1, <<>>)
       IN  /\ domains' = ds
           /\ slots' = res
           /\ task' = [i \in 1..Len(ds) |-> "done"]
           /\ attempts' = [i \in 1..Len(ds) |-> VendorCalls(os[i])]
           /\ batch' = [kind |-> "returned", list |-> results]
           /\ cli' = [cli EXCEPT !.phase = "done", !.cmd = "batch", !.calls = Len(ds),
                                 !.shown = p.shown, !.exit = p.exit, !.printed = p.printed]
    /\ UNCHANGED <<client, lastCall, order>>
    /\ UNCHANGED <<pc, cfgVars>>
    /\ UNCHANGED pureVars

(***************************************************************************)
(* OutputFormatter._build_tree                                             *)
(***************************************************************************)
\* the data: a mapping or a list with its entries in order, or a scalar
Scalar == [t |-> "str", kids |-> <<>>]
Dict(kids) == [t |-> "dict", kids |-> kids]
List(kids) == [t |-> "list", kids |-> kids]

\* isinstance(value, (dict, list))
IsContainer(x) == x.t \in {"dict", "list"}

\* a node added to the rich Tree: a branch or a leaf for entry n, the marker
\* "..." or the marker "... and n more items"
Node(label, n, kids) == [label |-> label, n |-> n, kids |-> kids]

\* max_depth: int = 10
max_depth == 10

\* the number of items of a list that are shown: data[:10]
ListLimit == 10

\* AtMaxDepth one level late
AtMaxDepthLate(current_depth) == current_depth > max_depth

\* if current_depth >= max_depth
AtMaxDepth(current_depth) == current_depth >= max_depth

\* ListShown with every item kept
ListShownAll(kids) == kids

\* data[:10]
ListShown(kids) == SubSeq(kids, 1, IF Len(kids) < ListLimit THEN Len(kids) ELSE ListLimit)

\* _build_tree(tree, data, max_depth, current_depth): the nodes added to tree
RECURSIVE BuildTree(_, _)
BuildTree(data, current_depth) ==
    IF AtMaxDepth(current_depth) THEN <<Node("...", 0, <<>>)>>
    ELSE IF data.t = "dict"
    THEN [i \in 1..Len(data.kids) |->
             IF IsContainer(data.kids[i]) /\ Len(data.kids[i].kids) > 0
             THEN Node("branch", i, BuildTree(data.kids[i], current_depth + 1))
             ELSE Node("leaf", i, <<>>)]
    ELSE IF data.t = "list"
    THEN LET shown == ListShown(data.kids)
         IN  [i \in 1..Len(shown) |->
                 IF IsContainer(shown[i])
                 THEN Node("branch", i - 1, BuildTree(shown[i], current_depth + 1))
                 ELSE Node("leaf", i - 1, <<>>)]
             \o (IF Len(data.kids) > ListLimit
                 THEN <<Node("more items", Len(data.kids) - ListLimit, <<>>)>>
                 ELSE <<>>)
    ELSE <<>>

\* the structures rendered: d containers of one kind (or alternating kinds)
\* nested in one another, each holding pad scalars before the next one, around
\* an innermost value
Scalars(n) == [i \in 1..n |-> Scalar]

RECURSIVE Nested(_, _, _, _)
Nested(kind, d, pad, inner) ==
    IF d = 0 THEN inner
    ELSE LET kids == Append(Scalars(pad),
                            Nested(IF kind = "dict-list" THEN "list-dict"
                                   ELSE IF kind = "list-dict" THEN "dict-list" ELSE kind,
                                   d - 1, pad, inner))
         IN  IF kind \in {"dict", "dict-list"} THEN Dict(kids) ELSE List(kids)

InnerValues == {Scalar, Dict(<<>>), Dict(<<Scalar>>)} \cup {List(Scalars(n)) : n \in 0..MaxLen}

TreeInputs ==
    {Nested(kind, d, pad, inner) :
        kind \in {"dict", "list", "dict-list"}, d \in 0..MaxNest, pad \in {1, ListLimit},
        inner \in InnerValues}

TreeIdle == [data |-> Scalar, nodes |-> <<>>, rendered |-> FALSE]

\* format_tree(data, title): self._build_tree(tree, data)
FormatTree ==
    /\ ~tree.rendered
    /\ tree' = [tree EXCEPT !.nodes = BuildTree(tree.data, 0), !.rendered = TRUE]
    /\ UNCHANGED <<pc, cfgVars, clientVars, cli>>
    /\ UNCHANGED <<summary, wrapper, metrics>>

(***************************************************************************)
(* OutputFormatter.format_domain_profile and format_search_results         *)
(***************************************************************************)
\* a section of a result is absent, a mapping with its usual fields ("dict")
\* or a mapping without them ("empty")
SectionKinds == {"absent", "dict", "empty"}

ProfileSections == {"registration", "whois", "dns", "website"}

\* HasSection that skips a section holding no field
HasSectionNonEmpty(profile, s) == profile[s] = "dict"

\* "<section>" in profile
HasSection(profile, s) == profile[s] # "absent"

Block(title, rows) == [title |-> title, rows |-> rows]

\* profile.get("domain", {}).get("domain", "Unknown")
ProfileName(profile) == IF profile.domain = "dict" THEN "domain" ELSE "Unknown"

\* what format_domain_profile prints: the panel, then one block per section
DomainProfileOutput(profile) ==
    <<Block("Domain Profile", <<ProfileName(profile)>>)>>
    \o (IF HasSection(profile, "registration")
        THEN <<Block("Registration Information",
                     IF profile.registration = "dict"
                     THEN <<"created", "updated", "expires", "registrar">>
                     ELSE <<"N/A", "N/A", "N/A", "N/A">>)>>
        ELSE <<>>)
    \o (IF HasSection(profile, "whois")
        THEN <<Block("WHOIS Information",
                     IF profile.whois = "dict" THEN <<"registrant", "admin", "tech">>
                     ELSE <<>>)>>
        ELSE <<>>)
    \o (IF HasSection(profile, "dns") /\ profile.dns = "dict"
        THEN <<Block("Nameservers", <<"ns1", "ns2">>)>>
        ELSE <<>>)
    \o (IF HasSection(profile, "website")
        THEN <<Block("Website Information",
                     IF profile.website = "dict" THEN <<"title", "server", "response_code">>
                     ELSE <<"N/A", "N/A", "N/A">>)>>
        ELSE <<>>)

\* the rows of search results shown: items[:20]
RowLimit == 20

\* what format_search_results prints for its "results" entry: None when the
\* entry is absent, else the list of items, each the set of its keys
SearchResultsOutput(results) ==
    <<Block("Search Results", <<>>)>>
    \o (IF results = None THEN <<>>
        ELSE IF Len(results[1]) = 0 THEN <<Block("No results found", <<>>)>>
        ELSE <<Block("table", <<results[1][1],
                                IF Len(results[1]) < RowLimit THEN Len(results[1])
                                ELSE RowLimit>>)>>
             \o (IF Len(results[1]) > RowLimit
                 THEN <<Block("Showing 20 of", <<Len(results[1])>>)>>
                 ELSE <<>>))

\* the profiles given to format_domain_profile
ProfileInputs ==
    [domain : SectionKinds, registration : SectionKinds, whois : SectionKinds,
     dns : SectionKinds, website : SectionKinds]

\* the "results" entries given to format_search_results
SearchInputs ==
    {None, Some(<<>>), Some(<<{"domain"}, {"created"}>>),
     Some(<<{"domain", "created"}>>)}
    \cup {Some([i \in 1..n |-> {"domain"}]) : n \in {RowLimit, RowLimit + 1}}

NoProfile == [s \in ProfileSections \cup {"domain"} |-> "absent"]

SummaryIdle ==
    [fn |-> "", profile |-> NoProfile, results |-> None, out |-> <<>>, rendered |-> FALSE]

\* format_domain_profile(profile)
FormatProfileSummary ==
    /\ summary.fn = "format_domain_profile"
    /\ ~summary.rendered
    /\ summary' = [summary EXCEPT !.out = DomainProfileOutput(summary.profile),
                                  !.rendered = TRUE]
    /\ UNCHANGED <<pc, cfgVars, clientVars, cli>>
    /\ UNCHANGED <<tree, wrapper, metrics>>

\* format_search_results(results, search_type)
FormatSearchSummary ==
    /\ summary.fn = "format_search_results"
    /\ ~summary.rendered
    /\ summary' = [summary EXCEPT !.out = SearchResultsOutput(summary.results),
                                  !.rendered = TRUE]
    /\ UNCHANGED <<pc, cfgVars, clientVars, cli>>
    /\ UNCHANGED <<tree, wrapper, metrics>>

(***************************************************************************)
(* dt-cli.py: DomainToolsWrapper                                           *)
(***************************************************************************)
\* the project's .env is the file the manager reads from the working
\* directory, and the project's YAML file the one the manager finds there
S_placeholder_key == <<"y", "o", "u", "r", "_", "a", "p", "i", "_", "k", "e", "y", "_", "h", "e", "r", "e">>
S_placeholder_secret == <<"y", "o", "u", "r", "_", "a", "p", "i", "_", "s", "e", "c", "r", "e", "t", "_", "h", "e", "r", "e">>

DigitChar(n) == CHOOSE c \in Digits : DigitVal(c) = n

\* str(n) of an integer
RECURSIVE PyStr(_)
PyStr(n) ==
    IF n < 0 THEN <<"-">> \o PyStr(0 - n)
    ELSE IF n < 10 THEN <<DigitChar(n)>>
    ELSE PyStr(n \div 10) \o <<DigitChar(n % 10)>>

\* a value of the .env file that load_env_file takes
UsableValue(v) == v # <<>> /\ v \notin {S_placeholder_key, S_placeholder_secret}

\* load_env_file: the env_vars it returns
EnvFileVars(file) == [k \in {x \in DOMAIN file : UsableValue(file[x])} |-> file[k]]

\* load_env_file: os.environ[key] = value for each of them
LoadEnvFile(env, file) == EnvFileVars(file) @@ env

\* a value of a config file that the wrapper takes as a credential or a URL
TruthyValue(v) == v.t = "int" \/ (v.t = "str" /\ v.s # <<>>)

\* str(value) of a setting
EnvString(v) == IF v.t = "int" THEN PyStr(v.n) ELSE v.s

\* the entries taken from the keys of one mapping: credentials and URL when
\* truthy and not a placeholder, settings whenever present
WrapperEntries(creds, kk, ks, ku, settings) ==
    LET takeKey == Has(creds, kk) /\ TruthyValue(creds[kk]) /\ creds[kk].s # S_placeholder_key
        takeSecret == Has(creds, ks) /\ TruthyValue(creds[ks])
                          /\ creds[ks].s # S_placeholder_secret
        takeUrl == Has(creds, ku) /\ TruthyValue(creds[ku])
        taken == {k \in IntKeys \cup {"output_format"} : Has(settings, k)}
    IN  [v \in (IF takeKey THEN {"DOMAINTOOLS_API_KEY"} ELSE {})
                   \cup (IF takeSecret THEN {"DOMAINTOOLS_API_SECRET"} ELSE {})
                   \cup (IF takeUrl THEN {"DOMAINTOOLS_API_URL"} ELSE {})
                   \cup {EnvVarOf[k] : k \in taken} |->
            CASE v = "DOMAINTOOLS_API_KEY" -> creds[kk].s
              [] v = "DOMAINTOOLS_API_SECRET" -> creds[ks].s
              [] v = "DOMAINTOOLS_API_URL" -> creds[ku].s
              [] OTHER -> EnvString(settings[CHOOSE k \in taken : EnvVarOf[k] = v])]

\* load_yaml_config: any exception is a warning and leaves what was taken so
\* far; a scalar api section raises on .get, a scalar string settings section
\* holds none of the keys
LoadYamlConfig(y) ==
    IF y.kind # "dict" \/ y.api.kind = "scalar" THEN EmptyMap
    ELSE WrapperEntries(y.api.d, "key", "secret", "url", y.settings.d)

\* load_json_config
LoadJsonConfig(j) ==
    IF j.kind # "dict" THEN EmptyMap
    ELSE WrapperEntries(j.d, "api_key", "api_secret", "api_url", j.d)

WrapperFound(env, source, creds) ==
    [environ |-> env, config_loaded |-> TRUE, config_source |-> source,
     api_credentials |-> creds]

\* load_configuration: the .env file, then the environment, then the first
\* config file that yields an API key
LoadConfiguration(env, file, y, j) ==
    LET env_config == EnvFileVars(file)
        env1 == LoadEnvFile(env, file)
        fromYaml == LoadYamlConfig(y)
        fromJson == LoadJsonConfig(j)
    IN  IF Has(env_config, "DOMAINTOOLS_API_KEY")
        THEN WrapperFound(env1, ".env file", env_config)
        ELSE IF Has(env1, "DOMAINTOOLS_API_KEY") /\ env1["DOMAINTOOLS_API_KEY"] # <<>>
        THEN WrapperFound(env1, "environment variables",
                          [v \in {"DOMAINTOOLS_API_KEY", "DOMAINTOOLS_API_SECRET"}
                                     \cap DOMAIN env1 |-> env1[v]])
        ELSE IF y.kind # "none" /\ Has(fromYaml, "DOMAINTOOLS_API_KEY")
        THEN WrapperFound(fromYaml @@ env1, "config.yaml", fromYaml)
        ELSE IF j.kind # "none" /\ Has(fromJson, "DOMAINTOOLS_API_KEY")
        THEN WrapperFound(fromJson @@ env1, "config.json", fromJson)
        ELSE [environ |-> env1, config_loaded |-> FALSE, config_source |-> "",
              api_credentials |-> EmptyMap]

WrapperOff ==
    [phase |-> "off", environ0 |-> EmptyMap, config_loaded |-> FALSE, config_source |-> "",
     api_credentials |-> EmptyMap, status |-> <<>>]

WrapperStart == [WrapperOff EXCEPT !.phase = "start"]

\* DomainToolsWrapper.main: self.load_configuration()
WrapperLoadConfiguration ==
    /\ pc = "setup"
    /\ wrapper.phase = "start"
    /\ LET r == LoadConfiguration(environ, dotenvCwd, yamlFile, jsonFile)
       IN  /\ environ' = r.environ
           /\ wrapper' = [wrapper EXCEPT !.phase = "loaded",
                                         !.environ0 = environ,
                                         !.config_loaded = r.config_loaded,
                                         !.config_source = r.config_source,
                                         !.api_credentials = r.api_credentials]
    /\ UNCHANGED <<pc, dotenvCwd, dotenvDir, jsonFile, yamlFile, yaml_config_file, config, hist>>
    /\ UNCHANGED <<clientVars, cli>>
    /\ UNCHANGED fileMode
    /\ UNCHANGED <<tree, summary, metrics>>

\* api_key[:10] + "..." if len(api_key) > 10 else "***"
WrapperMaskedKey(key) ==
    IF Len(key) > 10 THEN SubSeq(key, 1, 10) \o <<".", ".", ".">> ELSE <<"*", "*", "*">>

\* show_status: the rows about the configuration
StatusRows(w) ==
    IF w.config_loaded
    THEN <<[row |-> "Configuration", value |-> w.config_source]>>
         \o (IF Has(w.api_credentials, "DOMAINTOOLS_API_KEY")
             THEN <<[row |-> "API Key",
                     value |-> WrapperMaskedKey(w.api_credentials["DOMAINTOOLS_API_KEY"])]>>
             ELSE <<>>)
    ELSE <<[row |-> "Configuration", value |-> "Not configured"]>>

\* the status command: show_status() and return 0
WrapperShowStatus ==
    /\ pc = "setup"
    /\ wrapper.phase = "loaded"
    /\ wrapper' = [wrapper EXCEPT !.phase = "status", !.status = StatusRows(wrapper)]
    /\ pc' = "done"
    /\ UNCHANGED cfgVars
    /\ UNCHANGED <<clientVars, cli>>
    /\ UNCHANGED <<tree, summary, metrics>>

\* run_cli: the cli group constructs its manager in the wrapper's environment
WrapperRunCli == wrapper.phase = "loaded" /\ Construct

(***************************************************************************)
(* logging/metrics.py: MetricsCollector                                    *)
(***************************************************************************)
\* one operation name and its derived metric keys (_make_key: name|k=v,...)
K_total == "op_requests_total|function=f"
K_success == "op_requests_success|function=f"
K_duration == "op_duration_seconds|function=f"
ErrorTypes == {"ValueError", "KeyError"}
K_error(e) == "op_requests_error|error_type=" \o e \o ",function=f"
TrackKeys == {K_total, K_success, K_duration} \cup {K_error(e) : e \in ErrorTypes}
\* keys used by direct callers of the collector
K_requests == "requests"
K_latency == "latency"
MetricKeys == TrackKeys \cup {K_requests, K_latency}

Threads == {1, 2}

\* measured values: durations and gauge readings
Measured == {1, 2}

IdleThread ==
    [op |-> "none", at |-> "idle", key |-> "", val |-> 0, tmp |-> 0,
     it |-> 0, deque |-> <<>>, stale |-> FALSE, detached |-> FALSE, out |-> "none"]

\* MetricsCollector.__init__ (max_history = MaxHistory)
MetricsIdle ==
    [lock |-> 0,
     counters |-> [k \in MetricKeys |-> 0],
     gauges |-> [k \in MetricKeys |-> 0],
     history |-> [k \in MetricKeys |-> <<>>],
     performance |-> [count |-> 0, total_time |-> 0],
     threads |-> [t \in Threads |-> IdleThread],
     started |-> 0,
     calls |-> 0,
     exit |-> "none"]

\* deque(maxlen = max_history).append
DequeAppend(q, v) ==
    IF Len(q) < MaxHistory THEN Append(q, v)
    ELSE IF MaxHistory = 0 THEN q ELSE Append(Tail(q), v)

\* an append changes the deque's state counter: iterators over it go stale
Mutated(thr, k) ==
    [t \in Threads |->
        IF thr[t].at = "iterate" /\ thr[t].key = k /\ ~thr[t].detached
        THEN [thr[t] EXCEPT !.stale = TRUE] ELSE thr[t]]

\* bodies of the record_* methods, run with the lock held
RecordCounterBody(m, k, new) ==
    [m EXCEPT !.counters[k] = new,
              !.history[k] = DequeAppend(@, new),
              !.threads = Mutated(@, k)]

RecordGaugeBody(m, k, v) ==
    [m EXCEPT !.gauges[k] = v,
              !.history[k] = DequeAppend(@, v),
              !.threads = Mutated(@, k)]

RecordHistogramBody(m, k, v) ==
    [m EXCEPT !.history[k] = DequeAppend(@, v),
              !.threads = Mutated(@, k)]

\* PerformanceStats.update
RecordPerformanceBody(m, d) ==
    [m EXCEPT !.performance = [count |-> @.count + 1, total_time |-> @.total_time + d]]

\* reset: the four dictionaries are cleared; a deque being iterated is
\* dropped from the dictionary, not changed
ResetBody(m) ==
    [m EXCEPT !.counters = [k \in MetricKeys |-> 0],
              !.gauges = [k \in MetricKeys |-> 0],
              !.history = [k \in MetricKeys |-> <<>>],
              !.performance = [count |-> 0, total_time |-> 0]]

RECURSIVE Sorted(_)
Sorted(s) ==
    IF s = <<>> THEN <<>>
    ELSE LET i == CHOOSE j \in 1..Len(s) : \A n \in 1..Len(s) : s[j] <= s[n]
         IN <<s[i]>> \o Sorted([n \in 1..(Len(s) - 1) |-> IF n < i THEN s[n] ELSE s[n + 1]])

\* _percentile, percentile in hundredths, result in hundredths; indices are
\* 0-based in the source: sorted_values[c] is read whatever its weight
PercentileIndexes(n, p) ==
    LET f == ((n - 1) * p) \div 100 IN [f |-> f, c |-> f + 1]

Percentile(values, p) ==
    LET s == Sorted(values)
        k == (Len(s) - 1) * p
        ix == PercentileIndexes(Len(s), p)
    IN IF ix.c > Len(s) - 1 THEN [kind |-> "IndexError", value |-> 0]
       ELSE [kind |-> "ok",
             value |-> s[ix.f + 1] * (ix.c * 100 - k) + s[ix.c + 1] * (k - ix.f * 100)]

Percentiles == {90, 95, 99}

\* get_histogram_stats on the values read from the history
HistogramStats(values) ==
    IF values = <<>> THEN "empty"
    ELSE IF \E p \in Percentiles : Percentile(values, p).kind = "IndexError" THEN "IndexError"
    ELSE "stats"

\* get_all_metrics: statistics of every key of _metrics, under the lock
AllMetrics(m) ==
    IF \E k \in MetricKeys : HistogramStats(m.history[k]) = "IndexError"
    THEN "IndexError" ELSE "stats"

MetricsFrame == UNCHANGED <<pc, cfgVars, clientVars, cli, tree, summary, wrapper>>

\* a thread calls a method of the collector; those that open with
\* `with self._lock` first wait for the lock
CanEnter(t) == metrics.threads[t].at = "idle" /\ metrics.started < MaxOps

Entered(t, op, k, v, at) ==
    [metrics EXCEPT !.started = @ + 1,
                    !.threads[t] = [IdleThread EXCEPT !.op = op, !.at = at,
                                                      !.key = k, !.val = v]]

CallRecordCounter(t) ==
    /\ CanEnter(t)
    /\ metrics' = Entered(t, "record_counter", K_requests, 1, "acquire")
    /\ MetricsFrame

CallRecordGauge(t, v) ==
    /\ CanEnter(t)
    /\ metrics' = Entered(t, "record_gauge", K_latency, v, "acquire")
    /\ MetricsFrame

CallRecordHistogram(t, v) ==
    /\ CanEnter(t)
    /\ metrics' = Entered(t, "record_histogram", K_latency, v, "acquire")
    /\ MetricsFrame

CallRecordPerformance(t, v) ==
    /\ CanEnter(t)
    /\ metrics' = Entered(t, "record_performance", "", v, "acquire")
    /\ MetricsFrame

CallGetAllMetrics(t) ==
    /\ CanEnter(t)
    /\ metrics' = Entered(t, "get_all_metrics", "", 0, "acquire")
    /\ MetricsFrame

CallReset(t) ==
    /\ CanEnter(t)
    /\ metrics' = Entered(t, "reset", "", 0, "acquire")
    /\ MetricsFrame

\* get_histogram_stats takes no lock
CallGetHistogramStats(t, k) ==
    /\ CanEnter(t)
    /\ metrics' = Entered(t, "get_histogram_stats", k, 0, "lookup")
    /\ MetricsFrame

\* Lock.__enter__: blocks while another thread holds the lock
Acquire(t) ==
    /\ metrics.threads[t].at = "acquire"
    /\ metrics.lock = 0
    /\ metrics' = [metrics EXCEPT !.lock = t, !.threads[t].at = "locked"]
    /\ MetricsFrame

Return(m, t, out) ==
    [m EXCEPT !.threads[t] = [IdleThread EXCEPT !.op = m.threads[t].op,
                                                !.key = m.threads[t].key,
                                                !.out = out]]

Release(m, t, out) == [Return(m, t, out) EXCEPT !.lock = 0]

\* record_counter, self._counters[key] += value: the read
CounterRead(t) ==
    LET me == metrics.threads[t] IN
    /\ me.at = "locked" /\ me.op = "record_counter"
    /\ metrics' = [metrics EXCEPT !.threads[t].tmp = metrics.counters[me.key],
                                  !.threads[t].at = "write"]
    /\ MetricsFrame

\* record_counter: the write of the sum, the append, the release
CounterWrite(t) ==
    LET me == metrics.threads[t] IN
    /\ me.at = "write"
    /\ metrics' = Release(RecordCounterBody(metrics, me.key, me.tmp + me.val), t, "ok")
    /\ MetricsFrame

RecordGauge(t) ==
    LET me == metrics.threads[t] IN
    /\ me.at = "locked" /\ me.op = "record_gauge"
    /\ metrics' = Release(RecordGaugeBody(metrics, me.key, me.val), t, "ok")
    /\ MetricsFrame

RecordHistogram(t) ==
    LET me == metrics.threads[t] IN
    /\ me.at = "locked" /\ me.op = "record_histogram"
    /\ metrics' = Release(RecordHistogramBody(metrics, me.key, me.val), t, "ok")
    /\ MetricsFrame

RecordPerformance(t) ==
    LET me == metrics.threads[t] IN
    /\ me.at = "locked" /\ me.op = "record_performance"
    /\ metrics' = Release(RecordPerformanceBody(metrics, me.val), t, "ok")
    /\ MetricsFrame

\* get_all_metrics: an exception of a histogram leaves the with block
GetAllMetrics(t) ==
    LET me == metrics.threads[t] IN
    /\ me.at = "locked" /\ me.op = "get_all_metrics"
    /\ metrics' = Release(metrics, t, AllMetrics(metrics))
    /\ MetricsFrame

\* reset: deques under iteration leave the dictionary untouched
Detached(thr) ==
    [t \in Threads |->
        IF thr[t].at = "iterate" THEN [thr[t] EXCEPT !.detached = TRUE] ELSE thr[t]]

Reset(t) ==
    LET me == metrics.threads[t] IN
    /\ me.at = "locked" /\ me.op = "reset"
    /\ metrics' = Release([ResetBody(metrics) EXCEPT !.threads = Detached(@)], t, "ok")
    /\ MetricsFrame

\* get_histogram_stats: self._metrics.get(key, []) and iter() of it
Lookup(t) ==
    LET me == metrics.threads[t] IN
    /\ me.at = "lookup"
    /\ metrics' = IF metrics.history[me.key] = <<>>
                  THEN Return(metrics, t, "empty")
                  ELSE [metrics EXCEPT !.threads[t].at = "iterate",
                                       !.threads[t].deque = metrics.history[me.key]]
    /\ MetricsFrame

\* one step of [m.value for m in ...]: the deque iterator raises when the
\* deque changed since iter(); at the end the statistics are computed
IterNext(t) ==
    LET me == metrics.threads[t] IN
    /\ me.at = "iterate"
    /\ metrics' = IF me.stale THEN Return(metrics, t, "RuntimeError")
                  ELSE IF me.it = Len(me.deque)
                       THEN Return(metrics, t, HistogramStats(me.deque))
                       ELSE [metrics EXCEPT !.threads[t].it = @ + 1]
    /\ MetricsFrame

\* exceptions a wrapped function raises that are not Exception subclasses
BaseExceptions == {"KeyboardInterrupt", "SystemExit"}

Outcomes == {"return"} \cup ErrorTypes \cup BaseExceptions

Counted(m, k) == RecordCounterBody(m, k, m.counters[k] + 1)

\* wrapper of track_performance: try / except Exception / finally
Tracked(m, outcome, d) ==
    LET entered == Counted(m, K_total)
        left == IF outcome = "return" THEN Counted(entered, K_success)
                ELSE IF outcome \in ErrorTypes THEN Counted(entered, K_error(outcome))
                ELSE entered
    IN RecordPerformanceBody(RecordHistogramBody(left, K_duration, d), d)

TrackedCall(outcome, d) ==
    /\ metrics.calls < MaxCalls
    /\ metrics.lock = 0
    /\ metrics' = [Tracked(metrics, outcome, d) EXCEPT !.calls = @ + 1, !.exit = outcome]
    /\ MetricsFrame

(***************************************************************************)
(* Specification of the configuration manager                              *)
(***************************************************************************)
Init ==
    /\ pc = "setup"
    /\ environ = EmptyMap
    /\ dotenvCwd = EmptyMap
    /\ dotenvDir = EmptyMap
    /\ jsonFile = NoJson
    /\ yamlFile = NoYaml
    /\ yaml_config_file = None
    /\ config = None
    /\ hist = <<>>
    /\ fileMode = 0
    /\ client = "none"
    /\ lastCall = NoCall
    /\ domains = <<>>
    /\ task = <<>>
    /\ slots = <<>>
    /\ order = <<>>
    /\ attempts = <<>>
    /\ batch = NoBatch
    /\ cli = CliOff
    /\ tree = TreeIdle
    /\ summary = SummaryIdle
    /\ wrapper = WrapperOff
    /\ metrics = MetricsIdle

SetUp ==
    \/ \E var \in EnvVars : \E val \in EnvValues(var) : PutEnv(var, val)
    \/ \E var \in DotenvVars : \E val \in DotenvValues(var) : PutDotenvCwd(var, val)
    \/ \E var \in DotenvVars : \E val \in DotenvValues(var) : PutDotenvDir(var, val)
    \/ \E kind \in {"malformed", "nondict"} : WriteBadJson(kind)
    \/ \E k \in ConfigKeys : \E v \in JsonValues(k) : PutJson(k, v)
    \/ \E kind \in {"malformed", "empty"} : WriteBadYaml(kind)
    \/ \E sec \in {"api", "settings"} : PutYamlScalar(sec)
    \/ \E sec \in {"api", "settings"} : \E k \in YamlKeys(sec) : \E v \in YamlValues(k) :
          PutYaml(sec, k, v)

Next ==
    \/ SetUp
    \/ Construct
    \/ Load
    \/ IsConfigured
    \/ \E arg \in {None} \cup {Some(c) : c \in SaveConfigs} : Save(arg)
    \/ Clear

Spec == Init /\ [][Next]_vars

(***************************************************************************)
(* Specification of the API gateway facade                                 *)
(***************************************************************************)
\* the lists of domains a caller passes to batch_domain_profiles
DomainLists == UNION {[1..n -> Queries] : n \in 1..MaxDomains}

NextClient ==
    \/ \E o \in VendorOutcomes : NewClient(o)
    \/ \E m \in Endpoints : \E q \in Queries : \E o \in VendorOutcomes : Call(m, q, o)
    \/ \E ds \in DomainLists : BatchStart(ds)
    \/ \E i \in 1..MaxDomains : TaskStart(i)
    \/ \E i \in 1..MaxDomains : \E o \in BatchVendorOutcomes : TaskFinish(i, o)
    \/ Gather

SpecClient == Init /\ [][NextClient]_vars

(***************************************************************************)
(* Specification of a run of the command line                              *)
(***************************************************************************)
InitCli ==
    /\ pc = "setup"
    /\ environ = EmptyMap
    /\ dotenvCwd = EmptyMap
    /\ dotenvDir = EmptyMap
    /\ jsonFile = NoJson
    /\ yamlFile = NoYaml
    /\ yaml_config_file = None
    /\ config = None
    /\ hist = <<>>
    /\ fileMode = 0
    /\ client = "none"
    /\ lastCall = NoCall
    /\ domains = <<>>
    /\ task = <<>>
    /\ slots = <<>>
    /\ order = <<>>
    /\ attempts = <<>>
    /\ batch = NoBatch
    /\ cli = CliStart
    /\ tree = TreeIdle
    /\ summary = SummaryIdle
    /\ wrapper = WrapperOff
    /\ metrics = MetricsIdle

NextCli ==
    \/ SetUp
    \/ \E kopt \in KeyOptions : \E sopt \in SecretOptions : \E ctorOk \in BOOLEAN :
           CliGroup(kopt, sopt, ctorOk)
    \/ \E c \in ApiCommands : \E n \in 1..MaxArgs : \E o \in CallOutcomes : ApiSubcommand(c, n, o)
    \/ \E ctorOk \in BOOLEAN : \E ok \in BOOLEAN : ConfigTest(ctorOk, ok)
    \/ ConfigShow
    \/ \E k \in SetKeyOptions : \E s \in SetSecretOptions :
           \E test \in BOOLEAN : \E ctorOk \in BOOLEAN : \E ok \in BOOLEAN :
               ConfigSet(k, s, test, ctorOk, ok)
    \/ \E yes \in BOOLEAN : ConfigClear(yes)

SpecCli == InitCli /\ [][NextCli]_vars

(***************************************************************************)
(* Specification of the batch subcommand                                   *)
(***************************************************************************)
\* the state after cli() built a client from --api-key and --api-secret
InitBatchCommand ==
    /\ pc = "ready"
    /\ environ = EmptyMap
    /\ dotenvCwd = EmptyMap
    /\ dotenvDir = EmptyMap
    /\ jsonFile = NoJson
    /\ yamlFile = NoYaml
    /\ yaml_config_file = None
    /\ config = None
    /\ hist = <<>>
    /\ fileMode = 0
    /\ client = "none"
    /\ lastCall = NoCall
    /\ domains = <<>>
    /\ task = <<>>
    /\ slots = <<>>
    /\ order = <<>>
    /\ attempts = <<>>
    /\ batch = NoBatch
    /\ cli = [CliOff EXCEPT !.phase = "group", !.key = Some(S_ck), !.secret = Some(S_cs),
                         !.client = Some(<<S_ck, S_cs>>)]
    /\ tree = TreeIdle
    /\ summary = SummaryIdle
    /\ wrapper = WrapperOff
    /\ metrics = MetricsIdle

\* the domain arguments of the batch subcommand
CommandDomains == UNION {[1..n -> Queries] : n \in 1..MaxArgs}

NextBatchCommand ==
    \E ds \in CommandDomains : \E os \in [1..Len(ds) -> CommandVendorOutcomes] :
        BatchCommand(ds, os)

SpecBatchCommand == InitBatchCommand /\ [][NextBatchCommand]_vars

(***************************************************************************)
(* Specification of the tree rendering                                     *)
(***************************************************************************)
InitTree ==
    /\ pc = "setup"
    /\ environ = EmptyMap
    /\ dotenvCwd = EmptyMap
    /\ dotenvDir = EmptyMap
    /\ jsonFile = NoJson
    /\ yamlFile = NoYaml
    /\ yaml_config_file = None
    /\ config = None
    /\ hist = <<>>
    /\ fileMode = 0
    /\ client = "none"
    /\ lastCall = NoCall
    /\ domains = <<>>
    /\ task = <<>>
    /\ slots = <<>>
    /\ order = <<>>
    /\ attempts = <<>>
    /\ batch = NoBatch
    /\ cli = CliOff
    /\ tree \in {[TreeIdle EXCEPT !.data = x] : x \in TreeInputs}
    /\ summary = SummaryIdle
    /\ wrapper = WrapperOff
    /\ metrics = MetricsIdle

NextTree == FormatTree

SpecTree == InitTree /\ [][NextTree]_vars

(***************************************************************************)
(* Specification of the summary formatters                                 *)
(***************************************************************************)
InitSummary ==
    /\ pc = "setup"
    /\ environ = EmptyMap
    /\ dotenvCwd = EmptyMap
    /\ dotenvDir = EmptyMap
    /\ jsonFile = NoJson
    /\ yamlFile = NoYaml
    /\ yaml_config_file = None
    /\ config = None
    /\ hist = <<>>
    /\ fileMode = 0
    /\ client = "none"
    /\ lastCall = NoCall
    /\ domains = <<>>
    /\ task = <<>>
    /\ slots = <<>>
    /\ order = <<>>
    /\ attempts = <<>>
    /\ batch = NoBatch
    /\ cli = CliOff
    /\ tree = TreeIdle
    /\ summary \in {[SummaryIdle EXCEPT !.fn = "format_domain_profile", !.profile = p] :
                        p \in ProfileInputs}
                   \cup {[SummaryIdle EXCEPT !.fn = "format_search_results", !.results = r] :
                            r \in SearchInputs}
    /\ wrapper = WrapperOff
    /\ metrics = MetricsIdle

NextSummary ==
    \/ FormatProfileSummary
    \/ FormatSearchSummary

SpecSummary == InitSummary /\ [][NextSummary]_vars

(***************************************************************************)
(* Specification of the dt-cli.py wrapper                                  *)
(***************************************************************************)
InitWrapper ==
    /\ pc = "setup"
    /\ environ = EmptyMap
    /\ dotenvCwd = EmptyMap
    /\ dotenvDir = EmptyMap
    /\ jsonFile = NoJson
    /\ yamlFile = NoYaml
    /\ yaml_config_file = None
    /\ config = None
    /\ hist = <<>>
    /\ fileMode = 0
    /\ client = "none"
    /\ lastCall = NoCall
    /\ domains = <<>>
    /\ task = <<>>
    /\ slots = <<>>
    /\ order = <<>>
    /\ attempts = <<>>
    /\ batch = NoBatch
    /\ cli = CliOff
    /\ tree = TreeIdle
    /\ summary = SummaryIdle
    /\ wrapper = WrapperStart
    /\ metrics = MetricsIdle

NextWrapper ==
    \/ SetUp
    \/ WrapperLoadConfiguration
    \/ WrapperShowStatus
    \/ WrapperRunCli
    \/ Load

SpecWrapper == InitWrapper /\ [][NextWrapper]_vars

(***************************************************************************)
(* The metrics collector shared by threads                                 *)
(***************************************************************************)
InitOther ==
    /\ pc = "setup"
    /\ environ = EmptyMap
    /\ dotenvCwd = EmptyMap
    /\ dotenvDir = EmptyMap
    /\ jsonFile = NoJson
    /\ yamlFile = NoYaml
    /\ yaml_config_file = None
    /\ config = None
    /\ hist = <<>>
    /\ fileMode = 0
    /\ client = "none"
    /\ lastCall = NoCall
    /\ domains = <<>>
    /\ task = <<>>
    /\ slots = <<>>
    /\ order = <<>>
    /\ attempts = <<>>
    /\ batch = NoBatch
    /\ cli = CliOff
    /\ tree = TreeIdle
    /\ summary = SummaryIdle
    /\ wrapper = WrapperOff

InitMetrics == InitOther /\ metrics = MetricsIdle

NextMetrics ==
    \E t \in Threads :
        \/ CallRecordCounter(t)
        \/ \E v \in Measured : CallRecordGauge(t, v)
        \/ \E v \in Measured : CallRecordHistogram(t, v)
        \/ \E v \in Measured : CallRecordPerformance(t, v)
        \/ CallGetAllMetrics(t)
        \/ CallReset(t)
        \/ \E k \in {K_requests, K_latency} : CallGetHistogramStats(t, k)
        \/ Acquire(t)
        \/ CounterRead(t)
        \/ CounterWrite(t)
        \/ RecordGauge(t)
        \/ RecordHistogram(t)
        \/ RecordPerformance(t)
        \/ GetAllMetrics(t)
        \/ Reset(t)
        \/ Lookup(t)
        \/ IterNext(t)

SpecMetrics == InitMetrics /\ [][NextMetrics]_vars

(***************************************************************************)
(* Calls of a function wrapped by track_performance                        *)
(***************************************************************************)
InitTrack == InitOther /\ metrics = MetricsIdle

NextTrack == \E outcome \in Outcomes, d \in Measured : TrackedCall(outcome, d)

SpecTrack == InitTrack /\ [][NextTrack]_vars

(***************************************************************************)
(* ConfigManager.update on a constructed manager                           *)
(***************************************************************************)
\* the environments and the config.json files an updated manager starts with
UpdateEnvs ==
    {EmptyMap,
     ("DOMAINTOOLS_API_KEY" :> S_ek) @@ ("DOMAINTOOLS_API_SECRET" :> S_es),
     ("DOMAINTOOLS_API_KEY" :> S_ek) @@ ("DOMAINTOOLS_API_SECRET" :> S_es)
         @@ ("DOMAINTOOLS_TIMEOUT" :> S_60)}

UpdateJsonFiles ==
    {NoJson, JsonMalformed,
     JsonDict(("api_key" :> StrV(S_jk)) @@ ("api_secret" :> StrV(S_js))),
     JsonDict(("api_key" :> StrV(S_jk)) @@ ("api_secret" :> StrV(S_js))
                  @@ ("api_url" :> StrV(S_ju)) @@ ("output_format" :> StrV(S_tree)))}

\* the keyword arguments given to update
UpdateKwargs ==
    {("timeout" :> IntV(120)) @@ ("max_retries" :> IntV(10)),
     ("timeout" :> StrV(S_abc)),
     ("api_key" :> StrV(S_ck)) @@ ("api_secret" :> StrV(S_cs)),
     ("output_format" :> StrV(S_table))}

InitUpdate ==
    /\ pc = "ready"
    /\ environ \in UpdateEnvs
    /\ dotenvCwd = EmptyMap
    /\ dotenvDir = EmptyMap
    /\ jsonFile \in UpdateJsonFiles
    /\ yamlFile = NoYaml
    /\ yaml_config_file = None
    /\ config = None
    /\ hist = <<>>
    /\ fileMode = 0
    /\ client = "none"
    /\ lastCall = NoCall
    /\ domains = <<>>
    /\ task = <<>>
    /\ slots = <<>>
    /\ order = <<>>
    /\ attempts = <<>>
    /\ batch = NoBatch
    /\ cli = CliOff
    /\ tree = TreeIdle
    /\ summary = SummaryIdle
    /\ wrapper = WrapperOff
    /\ metrics = MetricsIdle

NextUpdate ==
    \/ Load
    \/ \E kw \in UpdateKwargs : Update(kw)

SpecUpdate == InitUpdate /\ [][NextUpdate]_vars

(***************************************************************************)
(* Properties of configuration resolution                                  *)
(***************************************************************************)
Last == hist[Len(hist)]
Prev == hist[1]

LoadReturned == Len(hist) > 0 /\ Last.op = "load" /\ Last.res.kind = "ok"
Loaded == Last.res.cfg[1]

\* the integer each literal of the set-up denotes
LiteralValue == (S_60 :> 60) @@ (S_neg5 :> (0 - 5)) @@ (S_7 :> 7)

\* the environment variable of field k holds a non-empty value, an integer
\* literal for the integer fields
EnvHolds(k) ==
    /\ Has(environ, EnvVarOf[k])
    /\ environ[EnvVarOf[k]] # <<>>
    /\ k \in IntKeys => environ[EnvVarOf[k]] \in DOMAIN LiteralValue

\* field k of configuration c has the value the environment variable holds
FieldIsEnv(c, k) ==
    CASE k = "api_key" -> c.api_key = environ[EnvVarOf[k]]
      [] k = "api_secret" -> c.api_secret = environ[EnvVarOf[k]]
      [] k = "api_url" -> c.api_url = StrV(environ[EnvVarOf[k]])
      [] k = "timeout" -> c.timeout = LiteralValue[environ[EnvVarOf[k]]]
      [] k = "max_retries" -> c.max_retries = LiteralValue[environ[EnvVarOf[k]]]
      [] k = "output_format" -> c.output_format = environ[EnvVarOf[k]]

\* C1: a field whose DOMAINTOOLS_* variable holds a non-empty value (an
\* integer literal for timeout and max_retries) resolves to that value,
\* whatever the config file contains
C1_EnvWins ==
    LoadReturned => \A k \in ConfigKeys : EnvHolds(k) => FieldIsEnv(Loaded, k)

\* the file that load() reads: the YAML file when one was found, else config.json
YamlSelected == yaml_config_file # None /\ yamlFile.kind # "none"

YamlKeyOf(k) ==
    CASE k = "api_key" -> "key" [] k = "api_secret" -> "secret" [] k = "api_url" -> "url"
      [] OTHER -> k

YamlSectionOf(k) ==
    IF k \in {"api_key", "api_secret", "api_url"} THEN yamlFile.api ELSE yamlFile.settings

\* the selected file gives field k a value
FileGives(k) ==
    IF YamlSelected
    THEN yamlFile.kind = "dict" /\ Has(YamlSectionOf(k).d, YamlKeyOf(k))
    ELSE jsonFile.kind = "dict" /\ Has(jsonFile.d, k)

FileValue(k) == IF YamlSelected THEN YamlSectionOf(k).d[YamlKeyOf(k)] ELSE jsonFile.d[k]

\* field k of configuration c, as a value
FieldValue(c, k) ==
    CASE k = "api_key" -> StrV(c.api_key)
      [] k = "api_secret" -> StrV(c.api_secret)
      [] k = "api_url" -> c.api_url
      [] k = "timeout" -> IntV(c.timeout)
      [] k = "max_retries" -> IntV(c.max_retries)
      [] k = "output_format" -> StrV(c.output_format)

\* the built-in default of a field that has one
BuiltinDefault(k) ==
    CASE k = "api_url" -> Null
      [] k = "timeout" -> IntV(30)
      [] k = "max_retries" -> IntV(3)
      [] k = "output_format" -> StrV(<<"j", "s", "o", "n">>)

\* C2: a field the environment does not set takes the selected file's value,
\* and a field no source sets takes the built-in default (timeout 30,
\* max_retries 3, output_format "json", api_url absent)
C2_KeyByKey ==
    LoadReturned =>
        \A k \in ConfigKeys :
            ~EnvHolds(k) =>
                IF FileGives(k) THEN FieldValue(Loaded, k) = FileValue(k)
                ELSE k \in {"api_url", "timeout", "max_retries", "output_format"}
                     => FieldValue(Loaded, k) = BuiltinDefault(k)

\* field k resolves, from the environment or else the selected file, to a
\* non-empty string
ResolvesNonEmpty(k) ==
    IF Has(environ, EnvVarOf[k]) /\ environ[EnvVarOf[k]] # <<>> THEN TRUE
    ELSE FileGives(k) /\ FileValue(k).t = "str" /\ FileValue(k).s # <<>>

IsConfiguredReturned ==
    Len(hist) > 0 /\ Last.op = "is_configured" /\ Last.res.kind \in {"true", "false"}

\* C3: is_configured returns true if and only if api_key and api_secret both
\* resolve to non-empty strings, whatever the other fields hold
C3_IsConfigured ==
    IsConfiguredReturned =>
        (Last.res.kind = "true"
            <=> ResolvesNonEmpty("api_key") /\ ResolvesNonEmpty("api_secret"))

SavedThenLoaded ==
    /\ Len(hist) = 2
    /\ Prev.op = "save" /\ Prev.res.kind = "ok"
    /\ Last.op = "load"
    /\ DOMAIN environ = {}

\* C4 as stated: save(c) then load(), with no DOMAINTOOLS_* variable set,
\* returns a configuration equal to c in every field
C4_RoundTrip_Original ==
    SavedThenLoaded => Last.res.kind = "ok" /\ Last.res.cfg[1] = Prev.res.cfg[1]

\* C4 amended: save(c) then load(), with no DOMAINTOOLS_* variable set and no
\* YAML config file selected, returns a configuration equal to c in every field
C4_RoundTrip ==
    (SavedThenLoaded /\ ~YamlSelected) =>
        Last.res.kind = "ok" /\ \A k \in ConfigKeys :
            FieldValue(Last.res.cfg[1], k) = FieldValue(Prev.res.cfg[1], k)

C4_Witness ==
    /\ SavedThenLoaded /\ ~YamlSelected
    /\ Last.res.kind = "ok"
    /\ Last.res.cfg[1].api_url # Null
    /\ Last.res.cfg[1].api_secret = S_ss

TwoLoads == Len(hist) = 2 /\ Prev.op = "load" /\ Last.op = "load"

\* C5: two successive load() calls, with the environment and the files
\* unchanged between them, return the same configuration or raise the same failure
C5_Idempotent == TwoLoads => Last.res = Prev.res

C5_Witness == TwoLoads /\ Last.res.kind = "ok" /\ yamlFile.kind # "none"

C1_Witness ==
    /\ LoadReturned
    /\ EnvHolds("api_key") /\ FileGives("api_key")
    /\ FileValue("api_key") # StrV(environ["DOMAINTOOLS_API_KEY"])

(***************************************************************************)
(* Properties of the API gateway facade                                    *)
(***************************************************************************)
BatchReturned == batch.kind = "returned"

Items == 1..Len(domains)

\* C6: batch_domain_profiles over N domains returns exactly N slots, and slot i
\* is the outcome of the call made for domains[i], whatever the order in which
\* the calls completed.
C6_SlotsInInputOrder ==
    BatchReturned =>
        /\ Len(batch.list) = Len(domains)
        /\ \A i \in Items :
               /\ batch.list[i] = slots[i]
               /\ batch.list[i].kind = "ok" => batch.list[i].query = domains[i]

C6_Witness ==
    /\ BatchReturned
    /\ Len(domains) = MaxDomains
    /\ order[1] = Len(domains)
    /\ slots[1].kind = "ok" /\ slots[Len(domains)].kind # "ok"
    /\ domains[1] # domains[2]

FourKinds == {"AuthenticationError", "InvalidRequestError", "RateLimitError", "DomainToolsError"}

\* C7: when the call of item k raises, the batch does not raise: slot k holds
\* the translated failure of item k, every other item's call has run to its
\* own outcome, and every other slot holds the outcome of its own item.
C7_FailureIsolated ==
    /\ batch.kind # "raised"
    /\ BatchReturned =>
           \A k \in Items :
               slots[k].kind # "ok" =>
                   /\ batch.list[k].kind \in FourKinds
                   /\ batch.list[k].msg = slots[k].msg
                   /\ \A i \in Items \ {k} :
                          /\ task[i] = "done"
                          /\ slots[i].kind = "ok" =>
                                 /\ batch.list[i].kind = "ok"
                                 /\ batch.list[i].query = domains[i]
                          /\ slots[i].kind # "ok" => batch.list[i].kind = slots[i].kind

C7_Witness ==
    /\ BatchReturned
    /\ Len(domains) >= 2
    /\ slots[order[1]].kind = "RateLimitError"
    /\ \E i \in Items : batch.list[i].kind = "ok"
    /\ \E i \in Items : batch.list[i].kind = "DomainToolsError"

\* the same letter, whatever its case
SameLetter(a, b) == LowerChar(a) = LowerChar(b)

\* msg holds the phrase at some position, letter by letter, in any case
HoldsPhrase(msg, phrase) ==
    \E i \in 0..(Len(msg) - Len(phrase)) :
        \A j \in 1..Len(phrase) : SameLetter(msg[i + j], phrase[j])

EndpointRaised == lastCall.op \in Endpoints /\ lastCall.vendor.raises

\* C8: _handle_exception never returns normally and maps NotAuthorizedException
\* to AuthenticationError, BadRequestException to InvalidRequestError, any
\* other ServiceException to RateLimitError when its message holds "rate limit"
\* in any letter case and to DomainToolsError otherwise, and every other
\* exception to a DomainToolsError whose message starts "Unexpected error".
C8_TotalMapping ==
    EndpointRaised =>
        LET e == lastCall.vendor
            r == lastCall.res
        IN  /\ r.kind # "ok"
            /\ e.type = "NotAuthorizedException" => r.kind = "AuthenticationError" /\ r.msg = e.msg
            /\ e.type = "BadRequestException" => r.kind = "InvalidRequestError" /\ r.msg = e.msg
            /\ e.type \in {"ServiceException", "NotFoundException"} =>
                   /\ r.msg = e.msg
                   /\ r.kind = IF HoldsPhrase(e.msg, S_ratelimit)
                               THEN "RateLimitError" ELSE "DomainToolsError"
            /\ e.type \in {"ValueError", "ConnectionError"} =>
                   /\ r.kind = "DomainToolsError"
                   /\ Len(r.msg) >= Len(S_unexpected)
                   /\ SubSeq(r.msg, 1, Len(S_unexpected)) = S_unexpected

C8_Witness ==
    /\ EndpointRaised
    /\ lastCall.vendor.type = "ServiceException"
    /\ lastCall.vendor.msg = M_RATE
    /\ lastCall.res.kind = "RateLimitError"

\* C9: every exception a caller observes from the constructor, an endpoint
\* method, an async variant or a batch slot is one of the four kinds.
C9_OnlyFourKinds ==
    /\ lastCall.op # "" /\ lastCall.res.kind # "ok" => lastCall.res.kind \in FourKinds
    /\ \A i \in Items : task[i] = "done" /\ slots[i].kind # "ok" => slots[i].kind \in FourKinds
    /\ BatchReturned =>
           \A i \in 1..Len(batch.list) :
               batch.list[i].kind # "ok" => batch.list[i].kind \in FourKinds
    /\ batch.kind = "raised" => batch.list[1].kind \in FourKinds

C9_Witness ==
    /\ lastCall.op = "whois_history"
    /\ lastCall.vendor.type = "ConnectionError"
    /\ lastCall.res.kind = "DomainToolsError"

(***************************************************************************)
(* Properties of the command line                                          *)
(***************************************************************************)
\* a credential resolves when the option, the environment or the file holds a
\* non-empty string for it
CredentialResolves(k) ==
    \/ Truthy(IF k = "api_key" THEN cli.key ELSE cli.secret)
    \/ ResolvesNonEmpty(k)

CredentialsComplete == CredentialResolves("api_key") /\ CredentialResolves("api_secret")

RunEnded == cli.phase = "done"

\* C10: in a run whose resolved credentials are missing or empty no gateway
\* call is made, and every API subcommand reports that the credentials are not
\* configured and exits with code 1.
C10_NoCallWithoutCredentials ==
    RunEnded /\ ~CredentialsComplete =>
        /\ cli.calls = 0
        /\ cli.cmd \in ApiCommands =>
               /\ cli.exit = 1
               /\ cli.printed = "Error: API credentials not configured"

\* the messages by which a command reports an error
ErrorMessages ==
    {"Error: API credentials not configured", "Configuration error", "Traceback",
     "Error", "Error processing", "Batch processing error", "Error row",
     "API connection failed", "No configuration found", "Error saving configuration"}

\* C11: a command exits with code 0 exactly when it reported no error, and
\* with code 1 whenever it reported one; this for every subcommand, batch,
\* reputation batch-check and the config subcommands included.
C11_ExitCodeTellsError ==
    RunEnded =>
        /\ cli.exit \in {0, 1}
        /\ cli.exit = 0 <=> cli.printed \notin ErrorMessages

(***************************************************************************)
(* Properties of the batch subcommand                                      *)
(***************************************************************************)
BatchCommandEnded == RunEnded /\ cli.cmd = "batch" /\ Len(domains) > 0

\* the lines shown for item i
LinesOf(i) == {k \in 1..Len(cli.shown) : cli.shown[k].item = i}

\* C12: batch prints, for every input domain and in input order, that
\* domain's data or an inline failure message; a failure while fetching or
\* rendering one item never keeps the output of another item from being shown.
C12_EveryItemShown ==
    BatchCommandEnded =>
        /\ \A i \in 1..Len(domains) :
               \E k \in LinesOf(i) : cli.shown[k].kind \in {"profile", "Error processing"}
        /\ \A k \in 1..Len(cli.shown), l \in 1..Len(cli.shown) :
               k < l => cli.shown[k].item <= cli.shown[l].item

(***************************************************************************)
(* Properties of the config subcommands                                    *)
(***************************************************************************)
\* no config file, no .env file and no DOMAINTOOLS_* variable
Unconfigured ==
    /\ jsonFile.kind = "none" /\ yamlFile.kind = "none"
    /\ DOMAIN environ = {} /\ DOMAIN dotenvCwd = {} /\ DOMAIN dotenvDir = {}
    /\ cli.key = None /\ cli.secret = None

\* is_configured() would return true
NowConfigured ==
    IsConfiguredResult(LoadOutcome(yaml_config_file, yamlFile, jsonFile, environ)).kind = "true"

\* C13: from an unconfigured state, config set with a non-empty API key and a
\* non-empty API secret saves the configuration, exits with code 0, and a
\* subsequent is_configured() returns true.
C13_ConfigSetRestores ==
    [][(/\ cli.phase = "group"
        /\ Unconfigured
        /\ cli'.cmd = "config set"
        /\ cli'.given = {"api_key", "api_secret"})
       => (/\ cli'.exit = 0
           /\ jsonFile'.kind = "dict"
           /\ NowConfigured')]_vars

(***************************************************************************)
(* Properties of ConfigManager.save                                        *)
(***************************************************************************)
SaveReturned == Len(hist) > 0 /\ Last.op = "save" /\ Last.res.kind = "ok"

\* C14: after save returns, config.json exists, only its owner may read and
\* write it (mode 0600), and it holds the secret in plain form.
C14_SavedOwnerOnly ==
    SaveReturned =>
        /\ jsonFile.kind = "dict"
        /\ fileMode = 384
        /\ Has(jsonFile.d, "api_secret")
        /\ jsonFile.d["api_secret"] = StrV(Last.res.cfg[1].api_secret)

C14_Witness ==
    /\ SaveReturned
    /\ Len(hist) = 1
    /\ yamlFile.kind = "dict"
    /\ Last.res.cfg[1].api_secret = S_ss

(***************************************************************************)
(* Properties of the tree rendering                                        *)
(***************************************************************************)
MaxOf(S) == IF S = {} THEN 0 ELSE CHOOSE m \in S : \A x \in S : x <= m

\* the number of levels of nesting of a structure: 0 for a scalar, 1 for a
\* mapping or list of scalars (or an empty one), and so on
RECURSIVE Depth(_)
Depth(data) ==
    IF IsContainer(data)
    THEN 1 + MaxOf({Depth(data.kids[i]) : i \in 1..Len(data.kids)})
    ELSE 0

\* the same, counting only what the rendering reaches: of a list its first ten
\* items, and not an empty mapping or list held as the value of a mapping
RECURSIVE ReachedDepth(_)
ReachedDepth(data) ==
    IF data.t = "dict"
    THEN 1 + MaxOf({IF Len(data.kids[i].kids) > 0 THEN ReachedDepth(data.kids[i]) ELSE 0 :
                      i \in 1..Len(data.kids)})
    ELSE IF data.t = "list"
    THEN 1 + MaxOf({ReachedDepth(data.kids[i]) :
                      i \in 1..(IF Len(data.kids) < 10 THEN Len(data.kids) ELSE 10)})
    ELSE 0

\* the depths in the rendered tree of the nodes with one of the labels
RECURSIVE DepthsOf(_, _, _)
DepthsOf(nodes, depth, labels) ==
    UNION {(IF nodes[i].label \in labels THEN {depth} ELSE {})
           \cup DepthsOf(nodes[i].kids, depth + 1, labels) : i \in 1..Len(nodes)}

MarkerDepths == DepthsOf(tree.nodes, 1, {"..."})

EntryDepths == DepthsOf(tree.nodes, 1, {"branch", "leaf", "more items"})

\* C15 as stated: a structure nested deeper than 10 levels is cut at depth 10
\* with a visible marker there, no node is rendered below depth 10, and a
\* structure nested at most 10 levels deep is rendered with no marker.
C15_DepthTruncated_Original ==
    tree.rendered =>
        /\ Depth(tree.data) > 10 => MarkerDepths = {11}
        /\ \A x \in EntryDepths : x <= 10
        /\ Depth(tree.data) <= 10 => MarkerDepths = {}

\* C15: the rendering stops descending at depth 10, showing the marker "..."
\* in place of what lies deeper, exactly when the structure is nested deeper
\* than 10 levels in the part it reaches (the first ten items of a list; an
\* empty mapping or list held as a mapping's value is a leaf); no node is ever
\* rendered below depth 10.
C15_DepthTruncated ==
    tree.rendered =>
        /\ ReachedDepth(tree.data) > 10 => MarkerDepths = {11}
        /\ \A x \in EntryDepths : x <= 10
        /\ ReachedDepth(tree.data) <= 10 => MarkerDepths = {}

C15_Witness ==
    /\ tree.rendered
    /\ ReachedDepth(tree.data) = MaxNest
    /\ MarkerDepths = {11}
    /\ 10 \in EntryDepths

\* the nodes built for a list above the depth limit are its first ten items
\* in order, then the count of the remaining ones when there are any
RECURSIVE ListsShown(_, _, _)
ListsShown(data, nodes, depth) ==
    IF depth >= 10 \/ ~IsContainer(data) THEN TRUE
    ELSE IF data.t = "list"
    THEN LET L == Len(data.kids)
             m == IF L < 10 THEN L ELSE 10
         IN  /\ Len(nodes) = IF L > 10 THEN m + 1 ELSE m
             /\ \A i \in 1..m :
                    /\ nodes[i].n = i - 1
                    /\ nodes[i].label = IF IsContainer(data.kids[i]) THEN "branch" ELSE "leaf"
                    /\ ListsShown(data.kids[i], nodes[i].kids, depth + 1)
             /\ L > 10 => nodes[m + 1] = Node("more items", L - 10, <<>>)
    ELSE /\ Len(nodes) = Len(data.kids)
         /\ \A i \in 1..Len(nodes) :
                nodes[i].label = "branch" => ListsShown(data.kids[i], nodes[i].kids, depth + 1)

LoadCalled == Len(hist) > 0 /\ Last.op = "load"

YamlUnparsable == YamlSelected /\ yamlFile.kind = "malformed"

JsonUnparsable == ~YamlSelected /\ jsonFile.kind = "malformed"

\* C17: a config file that cannot be parsed never makes load fail by itself:
\* the failure is reported as a warning and load gives the same outcome as if
\* the unparsable file were absent.
C17_UnparsableAsAbsent ==
    /\ LoadCalled /\ YamlUnparsable =>
           /\ Last.out # <<>>
           /\ Last.res = LoadOutcome(None, NoYaml, jsonFile, environ)
    /\ LoadCalled /\ JsonUnparsable =>
           /\ Last.out # <<>>
           /\ Last.res = LoadOutcome(yaml_config_file, yamlFile, NoJson, environ)

\* C18: load returns a validated configuration or raises the configuration
\* error (ValueError); it never raises any other exception.
C18_TwoOutcomes == LoadCalled => Last.res.kind \in {"ok", "ValueError"}

\* C19: every configuration that load returns (update validates with the same
\* DomainToolsConfig) has a non-empty api_key and api_secret, a positive
\* timeout, a non-negative max_retries and an output_format among json, table
\* and tree.
C19_DataModelInvariants ==
    LoadCalled /\ Last.res.kind = "ok" =>
        LET c == Last.res.cfg[1]
        IN  /\ c.api_key # <<>>
            /\ c.api_secret # <<>>
            /\ c.timeout > 0
            /\ c.max_retries >= 0
            /\ c.output_format \in {DefaultOutputFormat, S_table, S_tree}

\* the group callback has built the client its subcommand will use
GroupBuiltClient == cli.phase = "group" /\ cli.client # None

\* C20: whenever --api-key or --api-secret is passed, the client the command
\* uses carries that option's value for that credential (the other credential
\* coming from the next source).
C20_OptionWins ==
    GroupBuiltClient =>
        /\ cli.key = Some(S_ck) => cli.client[1][1] = S_ck
        /\ cli.secret = Some(S_cs) => cli.client[1][2] = S_cs

\* the group callback took its client from the resolved configuration
ClientFromConfiguration == GroupBuiltClient /\ config # None

\* C21: the timeout the Configuration Resolver resolved is the timeout in effect
\* for the calls of a client obtained from get_client.
C21_ResolvedTimeoutInEffect ==
    ClientFromConfiguration =>
        TimeoutInEffect(VendorApiArgs(GetClientArgs(config[1]))) = Some(config[1].timeout)

ConfigShown == RunEnded /\ cli.cmd = "config show"

\* the data config show's load() validated
ShownData == ConfigData(yaml_config_file, yamlFile, jsonFile, environ)

\* the secrets a configuration may hold in place of its own
OtherSecrets == {S_es, S_js, S_ys, S_cs}

InFlight == Cardinality(Running)

\* C23: at every moment of a batch run started by the batch command with
\* --concurrent c, at most c profile calls have started and not yet settled.
C23_ConcurrentBounds ==
    \A c \in ConcurrentOptions :
        domains = ProcessBatch(domains, c) /\ Len(domains) > 0 => InFlight <= c

\* C24: no call is retried: every settled item of a batch has caused exactly
\* one vendor call, whether it succeeded or failed, and a lone endpoint call
\* has made exactly one vendor call when its result or error surfaces.
C24_NoRetry ==
    /\ \A i \in 1..Len(domains) :
           /\ task[i] = "done" => attempts[i] = 1
           /\ task[i] = "pending" => attempts[i] = 0
    /\ lastCall.op \in Endpoints => attempts = <<1>>

C24_Witness ==
    /\ BatchReturned
    /\ Len(domains) >= 2
    /\ \E i \in Items : slots[i].kind = "RateLimitError" /\ attempts[i] = 1
    /\ \E i \in Items : slots[i].kind = "ok" /\ attempts[i] = 1

(***************************************************************************)
(* Properties of ConfigManager.update                                      *)
(***************************************************************************)
\* the value field k of a configuration takes from the keyword argument v
KwargField(k, v) ==
    CASE k \in {"api_key", "api_secret", "output_format"} -> v.s
      [] k = "api_url" -> v
      [] k \in IntKeys -> IntFieldValue(v)

\* the step is a call of update
UpdateCalled == hist' # hist /\ hist'[Len(hist')].op = "update"

\* what the step's call of update returned or raised, and its arguments
Updated == hist'[Len(hist')].res
UpdateArgs == hist'[Len(hist')].arg[1]

\* the configuration the update starts from: the one held, else the one load()
\* resolves
UpdateBase ==
    IF config # None THEN config
    ELSE LoadOutcome(yaml_config_file, yamlFile, jsonFile, environ).cfg

\* a returning update changes exactly the named fields and writes nothing
UpdateChangesNamed ==
    /\ Updated.kind = "ok" =>
           /\ config' = Updated.cfg
           /\ \A k \in ConfigKeys :
                  config'[1][k] = IF Has(UpdateArgs, k) THEN KwargField(k, UpdateArgs[k])
                                  ELSE UpdateBase[1][k]
    /\ UNCHANGED <<jsonFile, yamlFile, dotenvCwd, dotenvDir, fileMode, environ>>

\* C25 as stated: update changes exactly the fields named in kwargs, writes
\* nothing to disk, and a raising update leaves the manager's configuration as
\* it was before the call.
C25_UpdateFrame_Original ==
    [][UpdateCalled => /\ UpdateChangesNamed
                       /\ Updated.kind # "ok" => config' = config]_vars

\* C25: update changes exactly the fields named in kwargs, writes nothing to
\* disk, and a raising update leaves in place the configuration it started
\* from: the one the manager held or, for a manager that held none, the one
\* load() resolved during the call.
C25_UpdateFrame ==
    [][UpdateCalled => /\ UpdateChangesNamed
                       /\ Updated.kind # "ok" => config' = UpdateBase]_vars

C25_Witness ==
    /\ Len(hist) = 2
    /\ Prev.op = "update" /\ Prev.res.kind = "ok" /\ Has(Prev.arg[1], "api_key")
    /\ Last.op = "update" /\ Last.res.kind = "ValidationError"
    /\ config = Prev.res.cfg
    /\ config[1].api_key = S_ck
    /\ config[1].timeout = 60

(***************************************************************************)
(* Properties of the wrapper's environment                                 *)
(***************************************************************************)
WrapperLoaded == wrapper.phase \in {"loaded", "status"}

\* variable var was set in the process environment the wrapper started in
SetAtStart(var) == Has(wrapper.environ0, var)

\* C26: loading a .env file never changes a variable that is already set in
\* the process environment: after the wrapper's load_configuration, and after
\* the manager's construction that follows, every variable set at the start
\* holds the value it had, and a loaded configuration takes its field from it.
C26_EnvFileKeepsEnviron ==
    WrapperLoaded =>
        /\ \A var \in EnvVars : SetAtStart(var) => environ[var] = wrapper.environ0[var]
        /\ LoadReturned =>
               \A k \in ConfigKeys :
                   SetAtStart(EnvVarOf[k]) /\ EnvHolds(k) => FieldIsEnv(Loaded, k)

(***************************************************************************)
(* Properties of the summary formatters                                    *)
(***************************************************************************)
Titles(out) == {out[i].title : i \in 1..Len(out)}

SectionTitle ==
    [registration |-> "Registration Information", whois |-> "WHOIS Information",
     dns |-> "Nameservers", website |-> "Website Information"]

ProfileRendered == summary.rendered /\ summary.fn = "format_domain_profile"
SearchRendered == summary.rendered /\ summary.fn = "format_search_results"

\* the search summary shows its results entry exactly when it is present
SearchShown ==
    SearchRendered =>
        /\ summary.out[1].title = "Search Results"
        /\ (summary.results # None) <=>
               (Titles(summary.out) \cap {"table", "No results found"} # {})

Finished(t, op) == metrics.threads[t].at = "idle" /\ metrics.threads[t].op = op

\* C27: the collector is thread-safe: under any interleaving of its calls
\* no call fails because another thread changed the history it reads, and
\* the lock is only held by a thread that is inside a locked method
C27_ThreadSafe ==
    /\ \A t \in Threads : metrics.threads[t].out # "RuntimeError"
    /\ metrics.lock # 0 => metrics.threads[metrics.lock].at \in {"locked", "write"}

\* C30: a statistics call on a recorded metric returns statistics, the
\* percentile indexes stay inside the sorted values, and a history holds at
\* most max_history values
C30_StatsNeverRaise ==
    /\ \A t \in Threads : metrics.threads[t].out # "IndexError"
    /\ \A k \in MetricKeys : Len(metrics.history[k]) <= MaxHistory

TrackedErrors == metrics.counters[K_error("ValueError")] + metrics.counters[K_error("KeyError")]

\* C29: after any sequence of calls of a wrapped function, total = success +
\* errors = calls made, and every call left one duration sample and one
\* performance update
C29_TrackedCounts ==
    /\ metrics.counters[K_total] = metrics.calls
    /\ metrics.counters[K_total] = metrics.counters[K_success] + TrackedErrors
    /\ metrics.performance.count = metrics.calls
    /\ Len(metrics.history[K_duration]) = IF metrics.calls < MaxHistory THEN metrics.calls
                                          ELSE MaxHistory

====
